---- MODULE Spec2Model ----
(***************************************************************************)
(* One worker of monolake-core's worker_service_lifecycle: the controller  *)
(* (WorkerManager::run_controller and Execute::execute), its site table,   *)
(* the service slots, the accept loops spawned by serve() and the          *)
(* connection tasks they spawn.  All tasks of a worker run on one          *)
(* cooperative executor, so every action below is one uninterrupted piece  *)
(* of a task between two await points.  A second specification,           *)
(* FleetSpec, puts several such workers, each on its own thread with its   *)
(* own inbox, under WorkerFleetOrchestrator::dispatch_directive.  LifeSpec *)
(* is the whole life of one worker thread as the orchestrator drives it:   *)
(* one directive outstanding at a time, listeners that may fail, the inbox *)
(* closing and the controller returning; FairSpec is that life under the   *)
(* scheduling of the worker's executor.  SignalSpec adds to FleetSpec the  *)
(* one-shot senders returned by spawn_workers_async.  SpawnSpec is the     *)
(* thread-spawning loop of spawn_workers_inner with its CPU pinning.       *)
(* FactorySpec is the layered service factory of monolake-services: a      *)
(* pipeline of wrapping layers over a handler, rebuilt by make() and       *)
(* make_via_ref(old).                                                      *)
(***************************************************************************)
EXTENDS Integers, Sequences, FiniteSets, TLC

\* ------------------------------------------------------------------ bounds
MaxDirectives == 4      \* directives ever enqueued into the inbox
MaxInbox == 2           \* directives waiting in the inbox at once
MaxConns == 1           \* connections ever accepted on the worker
MaxDispatch == 2        \* calls of dispatch_directive
NumWorkers == 2         \* worker threads spawned by the orchestrator
MaxFeeds == 2           \* directives fed to the worker in its whole life
MaxAcceptErrs == 1      \* errors ever yielded by the listeners of the worker
MaxThreads == 3         \* largest runtime_config.worker_threads
MaxCores == 2           \* largest std::thread::available_parallelism()
MaxLayers == 2          \* wrapping layers between the TLS layer and the handler
MaxBuilds == 2          \* times a pipeline's factory is applied

\* ------------------------------------------------------------- vocabulary
Sites == {"a"}
NoName == "-"
Ids == 1..MaxDirectives  \* a directive builds at most one service and one loop

StageServiceK == "StageService"
UpdateDeployedWithStagedK == "UpdateDeployedWithStaged"
DeployNewFromStagedK == "DeployNewFromStaged"
CreateAndDeployK == "CreateAndDeploy"
AbortStagingK == "AbortStaging"
RemoveServiceK == "RemoveService"

WorkerDirective ==
    { StageServiceK, UpdateDeployedWithStagedK, DeployNewFromStagedK,
      CreateAndDeployK, AbortStagingK, RemoveServiceK }

WorkerDirectiveError == { "SiteLookupFailed", "ServiceNotStaged", "ServiceNotDeployed" }

CommandError ==
    { "BuildService", "BuildListener", "SiteNotExist",
      "PreparationNotExist", "PreviousHandlerNotExist" }

Ok == "Ok"

VARIABLES
    inbox,      \* Receiver<WorkerDirectiveTask>: FIFO of [id, kind, name]
    nextId,     \* number of directives enqueued so far
    ctl,        \* position of run_controller / execute and its locals
    sites,      \* WorkerManager.sites: name -> ServiceDeploymentManager
    slot,       \* ServiceSlot cells, one per deployment: id -> service (0: dropped)
    loops,      \* serve() tasks, one per deployment
    rc,         \* owner count of every built service (Rc strong count)
    nsvc,       \* services built so far
    nloop,      \* deployments (slot + accept loop) created so far
    madeFrom,   \* service -> the `old` service its factory was given (0: None)
    conns,      \* connection tasks spawned by the accept loops
    replied,    \* replies sent so far
    lastReply,  \* the last reply sent, with the state the directive found
    pubUpd,     \* site -> service published by its latest UpdateDeployedWithStaged
    pre,        \* controller-owned state when the current directive was dequeued
    orch,       \* dispatch_directive: position, loop index, directive, and the
                \* workers that had terminated when it was called
    results,    \* dispatch_directive's `results` vector
    replyRx,    \* worker -> state of the reply channel of its current task
    walive,     \* worker -> its thread is still running run_controller
    winbox,     \* worker -> tasks fed into its channel and not yet taken
    wrun,       \* worker -> the task its controller is executing
    wcore,      \* worker -> its WorkerManager state
    wlast,      \* worker -> the task of this dispatch it answered, with the answer
    finishTx,   \* worker -> the one-shot sender spawn_workers returned was used
    rxClosed,   \* every sender of the worker's inbox has been dropped
    thread,     \* the worker thread: in run_controller, draining, or exited
    acceptErrs, \* accept loop -> errors its listener has yielded so far
    spawn,      \* spawn_workers_inner: configuration, loop index, CPU masks
    fac         \* a service pipeline: its layers, the deployed service, the last build

wvars == << inbox, nextId, ctl, sites, slot, loops, rc, nsvc, nloop, madeFrom,
            conns, replied, lastReply, pubUpd, pre >>

fleet == << orch, results, replyRx, walive, winbox, wrun, wcore, wlast, finishTx >>

life == << rxClosed, thread, acceptErrs >>

vars == << wvars, fleet, life, spawn, fac >>

\* ------------------------------------------------------- the worker's core
Absent == [present |-> FALSE, staged |-> 0, deployed |-> 0]
NoLoop == [st |-> "none", site |-> NoName, stop |-> "none"]

Core ==
    [sites |-> sites, slot |-> slot, loops |-> loops, rc |-> rc,
     nsvc |-> nsvc, nloop |-> nloop, madeFrom |-> madeFrom]

SetCore(c) ==
    /\ sites' = c.sites
    /\ slot' = c.slot
    /\ loops' = c.loops
    /\ rc' = c.rc
    /\ nsvc' = c.nsvc
    /\ nloop' = c.nloop
    /\ madeFrom' = c.madeFrom

\* Rc::clone on a service handle.
RcCloneNoCount(r, v) == r

RcClone(r, v) == IF v = 0 THEN r ELSE [r EXCEPT ![v] = @ + 1]

\* Dropping one owner of a service.
RcDrop(r, v) == IF v = 0 THEN r ELSE [r EXCEPT ![v] = @ - 1]

\* ServiceSlot::get_svc: clone of the Rc currently in the cell.
SlotGetSvc(c, l) == c.slot[l]

\* ServiceSlot::update_svc: store the new Rc, the previous one is dropped.
SlotUpdateSvc(c, l, v) ==
    [c EXCEPT !.slot[l] = v, !.rc = RcDrop(@, c.slot[l])]

\* Dropping a ServiceManager: its _stop receiver goes away, which resolves
\* the cancellation future of the accept loop, and its clone of the slot goes
\* away; the cell itself lives on while the accept loop holds its clone.
DropServiceManager(c, l, why) ==
    IF c.loops[l].st = "live"
    THEN [c EXCEPT !.loops[l].stop = why]
    ELSE [c EXCEPT !.slot[l] = 0, !.rc = RcDrop(@, c.slot[l])]

\* WorkerManager::get_svc / ServiceDeploymentManager::get_svc (0 is None).
get_svc(c, name) ==
    IF c.sites[name].present /\ c.sites[name].deployed # 0
    THEN SlotGetSvc(c, c.sites[name].deployed)
    ELSE 0

\* WorkerManager::stage_svc that fills the staged slot only when it is empty.
stage_svc_keep_first(c, name, svc) ==
    LET sh == c.sites[name] IN
    IF sh.staged # 0
    THEN [c EXCEPT !.sites[name].present = TRUE, !.rc = RcDrop(@, svc)]
    ELSE [c EXCEPT !.sites[name] = [present |-> TRUE, staged |-> svc,
                                     deployed |-> sh.deployed]]

\* WorkerManager::stage_svc
stage_svc(c, name, svc) ==
    LET sh == c.sites[name] IN
    [c EXCEPT !.sites[name] = [present |-> TRUE, staged |-> svc,
                                deployed |-> sh.deployed],
              !.rc = RcDrop(@, sh.staged)]

\* WorkerManager::update_deployed_with_staged that checks the staged slot
\* before the deployed record.
update_staged_first(c, name) ==
    LET sh == c.sites[name] IN
    IF ~sh.present THEN [c |-> c, err |-> "SiteLookupFailed"]
    ELSE IF sh.staged = 0 THEN [c |-> c, err |-> "ServiceNotStaged"]
    ELSE IF sh.deployed = 0
         THEN [c |-> [c EXCEPT !.sites[name].staged = 0, !.rc = RcDrop(@, sh.staged)],
               err |-> "ServiceNotDeployed"]
    ELSE [c |-> SlotUpdateSvc([c EXCEPT !.sites[name].staged = 0],
                               sh.deployed, sh.staged),
          err |-> "none"]

\* WorkerManager::update_deployed_with_staged that takes the staged service
\* out of its slot before it looks for the deployed record.
update_takes_staged_early(c, name) ==
    LET sh == c.sites[name] IN
    IF ~sh.present THEN [c |-> c, err |-> "SiteLookupFailed"]
    ELSE IF sh.deployed = 0
         THEN [c |-> [c EXCEPT !.sites[name].staged = 0, !.rc = RcDrop(@, sh.staged)],
               err |-> "ServiceNotDeployed"]
    ELSE IF sh.staged = 0 THEN [c |-> c, err |-> "ServiceNotStaged"]
    ELSE [c |-> SlotUpdateSvc([c EXCEPT !.sites[name].staged = 0],
                               sh.deployed, sh.staged),
          err |-> "none"]

\* WorkerManager::update_deployed_with_staged
update_deployed_with_staged(c, name) ==
    LET sh == c.sites[name] IN
    IF ~sh.present THEN [c |-> c, err |-> "SiteLookupFailed"]
    ELSE IF sh.deployed = 0 THEN [c |-> c, err |-> "ServiceNotDeployed"]
    ELSE IF sh.staged = 0 THEN [c |-> c, err |-> "ServiceNotStaged"]
    ELSE [c |-> SlotUpdateSvc([c EXCEPT !.sites[name].staged = 0],
                               sh.deployed, sh.staged),
          err |-> "none"]

\* WorkerManager::deploy_staged_service that copies the staged service and
\* leaves it in the staged slot.
deploy_keeps_staged(c, name) ==
    LET sh == c.sites[name]
        l == c.nloop + 1
    IN
    IF ~sh.present THEN [c |-> c, err |-> "SiteLookupFailed", hdr |-> 0]
    ELSE IF sh.staged = 0 THEN [c |-> c, err |-> "ServiceNotStaged", hdr |-> 0]
    ELSE LET c1 == [c EXCEPT !.nloop = l, !.slot[l] = sh.staged,
                             !.rc = RcClone(@, sh.staged),
                             !.sites[name].deployed = l]
             c2 == IF sh.deployed # 0
                   THEN DropServiceManager(c1, sh.deployed, "redeploy")
                   ELSE c1
         IN [c |-> c2, err |-> "none", hdr |-> l]

\* WorkerManager::deploy_staged_service that keeps an existing deployed
\* record and stores the staged service in its slot.
deploy_reuses_record(c, name) ==
    LET sh == c.sites[name]
        l == c.nloop + 1
    IN
    IF ~sh.present THEN [c |-> c, err |-> "SiteLookupFailed", hdr |-> 0]
    ELSE IF sh.staged = 0 THEN [c |-> c, err |-> "ServiceNotStaged", hdr |-> 0]
    ELSE IF sh.deployed # 0
         THEN [c |-> SlotUpdateSvc([c EXCEPT !.sites[name].staged = 0],
                                   sh.deployed, sh.staged),
               err |-> "none", hdr |-> sh.deployed]
    ELSE [c |-> [c EXCEPT !.nloop = l, !.slot[l] = sh.staged,
                          !.sites[name] = [present |-> TRUE, staged |-> 0,
                                           deployed |-> l]],
          err |-> "none", hdr |-> l]

\* WorkerManager::deploy_staged_service with ServiceManager::create: a new
\* cell and stop channel; the previous deployed record, if any, is dropped
\* by the assignment.
deploy_staged_service(c, name) ==
    LET sh == c.sites[name]
        l == c.nloop + 1
    IN
    IF ~sh.present THEN [c |-> c, err |-> "SiteLookupFailed", hdr |-> 0]
    ELSE IF sh.staged = 0 THEN [c |-> c, err |-> "ServiceNotStaged", hdr |-> 0]
    ELSE LET c1 == [c EXCEPT !.nloop = l, !.slot[l] = sh.staged,
                             !.sites[name] = [present |-> TRUE, staged |-> 0,
                                              deployed |-> l]]
             c2 == IF sh.deployed # 0
                   THEN DropServiceManager(c1, sh.deployed, "redeploy")
                   ELSE c1
         IN [c |-> c2, err |-> "none", hdr |-> l]

\* WorkerManager::remove with a service freed whatever its owner count.
remove_forced(c, name) ==
    LET sh == c.sites[name]
        c1 == [c EXCEPT !.sites[name] = Absent, !.rc = RcDrop(@, sh.staged)]
    IN
    IF ~sh.present THEN [c |-> c, err |-> "SiteLookupFailed"]
    ELSE IF sh.deployed # 0
         THEN [c |-> [DropServiceManager(c1, sh.deployed, "remove")
                         EXCEPT !.rc[c.slot[sh.deployed]] = 0],
               err |-> "none"]
    ELSE [c |-> c1, err |-> "none"]

\* WorkerManager::remove: the whole ServiceDeploymentManager is dropped.
remove(c, name) ==
    LET sh == c.sites[name]
        c1 == [c EXCEPT !.sites[name] = Absent, !.rc = RcDrop(@, sh.staged)]
    IN
    IF ~sh.present THEN [c |-> c, err |-> "SiteLookupFailed"]
    ELSE IF sh.deployed # 0
         THEN [c |-> DropServiceManager(c1, sh.deployed, "remove"), err |-> "none"]
    ELSE [c |-> c1, err |-> "none"]

\* WorkerManager::abort that leaves the staged service where it is.
abort_keeps_staged(c, name) ==
    LET sh == c.sites[name] IN
    IF ~sh.present THEN [c |-> c, err |-> "SiteLookupFailed"]
    ELSE [c |-> c, err |-> "none"]

\* WorkerManager::abort that drops the whole site entry.
abort_removes_site(c, name) ==
    LET sh == c.sites[name]
        c1 == [c EXCEPT !.sites[name] = Absent, !.rc = RcDrop(@, sh.staged)]
    IN
    IF ~sh.present THEN [c |-> c, err |-> "SiteLookupFailed"]
    ELSE IF sh.deployed # 0
         THEN [c |-> DropServiceManager(c1, sh.deployed, "remove"), err |-> "none"]
    ELSE [c |-> c1, err |-> "none"]

\* WorkerManager::abort
abort(c, name) ==
    LET sh == c.sites[name] IN
    IF ~sh.present THEN [c |-> c, err |-> "SiteLookupFailed"]
    ELSE [c |-> [c EXCEPT !.sites[name].staged = 0, !.rc = RcDrop(@, sh.staged)],
          err |-> "none"]

\* impl From<WorkerDirectiveError> for CommandError
CommandErrorSwapped(e) ==
    CASE e = "SiteLookupFailed" -> "SiteNotExist"
      [] e = "ServiceNotStaged" -> "PreviousHandlerNotExist"
      [] e = "ServiceNotDeployed" -> "PreparationNotExist"

CommandErrorFrom(e) ==
    CASE e = "SiteLookupFailed" -> "SiteNotExist"
      [] e = "ServiceNotStaged" -> "PreparationNotExist"
      [] e = "ServiceNotDeployed" -> "PreviousHandlerNotExist"

ReplyOf(err) == IF err = "none" THEN Ok ELSE CommandErrorFrom(err)

\* A factory's make_via_ref(old) that succeeds: a new service owned by value.
NewSvc(c, old) ==
    [c EXCEPT !.nsvc = @ + 1, !.rc[c.nsvc + 1] = 1, !.madeFrom[c.nsvc + 1] = old]

\* monoio::spawn(serve(listener, hdr, stop))
SpawnServe(c, l, name) ==
    [c EXCEPT !.loops[l] = [st |-> "live", site |-> name, stop |-> "none"]]

\* ------------------------------------------- Execute::execute, per variant
\* StageService that stages whatever the factory left behind before it
\* looks at the factory's result.
StageFinishStagesOnError(c, name, old, fOk) ==
    [c |-> stage_svc(NewSvc(c, old), name, c.nsvc + 1),
     res |-> IF fOk THEN Ok ELSE "BuildService"]

\* StageService that calls make() instead of make_via_ref(current_svc).
StageFinishWithoutOld(c, name, old, fOk) ==
    IF fOk
    THEN [c |-> stage_svc(NewSvc(c, 0), name, c.nsvc + 1), res |-> Ok]
    ELSE [c |-> c, res |-> "BuildService"]

\* StageService that empties the staged slot when the factory fails.
StageFinishClearsOnError(c, name, old, fOk) ==
    IF fOk
    THEN [c |-> stage_svc(NewSvc(c, old), name, c.nsvc + 1), res |-> Ok]
    ELSE [c |-> [c EXCEPT !.sites[name].staged = 0,
                          !.rc = RcDrop(@, c.sites[name].staged)],
          res |-> "BuildService"]

\* StageService after the factory future has resolved; `old` is the clone
\* get_svc returned before the await.
StageFinish(c, name, old, fOk) ==
    IF fOk
    THEN [c |-> stage_svc(NewSvc(c, old), name, c.nsvc + 1), res |-> Ok]
    ELSE [c |-> c, res |-> "BuildService"]

RunStage(c, name, fOk) == StageFinish(c, name, get_svc(c, name), fOk)

\* UpdateDeployedWithStaged done as a fresh deployment: new cell, new stop
\* channel, the previous deployed record dropped.
RunUpdateAsRedeploy(c, name) ==
    LET r == update_deployed_with_staged(c, name)
        d == deploy_staged_service(c, name)
    IN IF r.err = "none" THEN [c |-> d.c, res |-> Ok]
       ELSE [c |-> r.c, res |-> ReplyOf(r.err)]

RunUpdate(c, name) ==
    LET r == update_deployed_with_staged(c, name) IN
    [c |-> r.c, res |-> ReplyOf(r.err)]

\* DeployNewFromStaged that looks at the site before it builds the listener.
RunDeployNewCheckFirst(c, name, lOk) ==
    LET r == deploy_staged_service(c, name) IN
    IF r.err # "none" THEN [c |-> c, res |-> ReplyOf(r.err)]
    ELSE IF ~lOk THEN [c |-> c, res |-> "BuildListener"]
    ELSE [c |-> SpawnServe(r.c, r.hdr, name), res |-> Ok]

\* DeployNewFromStaged after the listener future has resolved.
RunDeployNew(c, name, lOk) ==
    IF ~lOk THEN [c |-> c, res |-> "BuildListener"]
    ELSE LET r == deploy_staged_service(c, name) IN
         IF r.err # "none" THEN [c |-> c, res |-> ReplyOf(r.err)]
         ELSE [c |-> SpawnServe(r.c, r.hdr, name), res |-> Ok]

\* CreateAndDeploy that stages the service before the listener is built.
CreateFinishStagedFirst(c, name, svc, lOk) ==
    IF ~lOk THEN [c |-> stage_svc(c, name, svc), res |-> "BuildListener"]
    ELSE LET r == deploy_staged_service(stage_svc(c, name, svc), name) IN
         IF r.err # "none" THEN [c |-> c, res |-> ReplyOf(r.err)]
         ELSE [c |-> SpawnServe(r.c, r.hdr, name), res |-> Ok]

\* CreateAndDeploy that deploys its service past the staged slot, leaving
\* there what was staged before.
CreateFinishKeepsStaged(c, name, svc, lOk) ==
    IF ~lOk THEN [c |-> [c EXCEPT !.rc = RcDrop(@, svc)], res |-> "BuildListener"]
    ELSE LET kept == c.sites[name].staged
             r == deploy_staged_service(
                      [c EXCEPT !.sites[name].present = TRUE,
                                !.sites[name].staged = svc], name)
         IN [c |-> SpawnServe([r.c EXCEPT !.sites[name].staged = kept],
                              r.hdr, name),
             res |-> Ok]

\* CreateAndDeploy after the listener future has resolved; svc is the
\* service F.make() returned, still owned by the execute future.
CreateFinish(c, name, svc, lOk) ==
    IF ~lOk THEN [c |-> [c EXCEPT !.rc = RcDrop(@, svc)], res |-> "BuildListener"]
    ELSE LET r == deploy_staged_service(stage_svc(c, name, svc), name) IN
         IF r.err # "none" THEN [c |-> c, res |-> ReplyOf(r.err)]
         ELSE [c |-> SpawnServe(r.c, r.hdr, name), res |-> Ok]

\* CreateAndDeploy with the two builds in the other order.
RunCreateListenerFirst(c, name, fOk, lOk) ==
    IF ~lOk THEN [c |-> c, res |-> "BuildListener"]
    ELSE IF ~fOk THEN [c |-> c, res |-> "BuildService"]
    ELSE CreateFinish(NewSvc(c, 0), name, c.nsvc + 1, lOk)

RunCreate(c, name, fOk, lOk) ==
    IF ~fOk THEN [c |-> c, res |-> "BuildService"]
    ELSE CreateFinish(NewSvc(c, 0), name, c.nsvc + 1, lOk)

RunAbort(c, name) ==
    LET r == abort(c, name) IN [c |-> r.c, res |-> ReplyOf(r.err)]

RunRemove(c, name) ==
    LET r == remove(c, name) IN [c |-> r.c, res |-> ReplyOf(r.err)]

\* Execute::execute as one function of the state found and of the outcomes
\* of the two factories.
RunDirective(c, k, name, fOk, lOk) ==
    CASE k = StageServiceK -> RunStage(c, name, fOk)
      [] k = UpdateDeployedWithStagedK -> RunUpdate(c, name)
      [] k = DeployNewFromStagedK -> RunDeployNew(c, name, lOk)
      [] k = CreateAndDeployK -> RunCreate(c, name, fOk, lOk)
      [] k = AbortStagingK -> RunAbort(c, name)
      [] k = RemoveServiceK -> RunRemove(c, name)

\* ------------------------------------------------------------- controller
Idle == [pc |-> "idle", id |-> 0, kind |-> NoName, name |-> NoName,
         old |-> 0, svc |-> 0]

\* run_controller takes the next task only after the previous execute
\* future has resolved and its result has been sent.
CtlAlwaysReady(k) == inbox # << >> /\ Head(inbox).kind = k

\* run_controller that leaves its loop after a directive that failed.
CtlReadyUnlessFailed(k) ==
    /\ ctl.pc = "idle"
    /\ inbox # << >>
    /\ Head(inbox).kind = k
    /\ lastReply.res = Ok

CtlReady(k) == ctl.pc = "idle" /\ inbox # << >> /\ Head(inbox).kind = k

\* What the controller owns and a directive may change.
View(c) ==
    [sites |-> c.sites,
     content |-> [s \in Sites |-> get_svc(c, s)],
     spawned |-> c.nloop,
     stopped |-> {l \in Ids : c.loops[l].stop # "none"}]

Found(c, name, lOk) ==
    [hadSite |-> c.sites[name].present,
     hadStaged |-> c.sites[name].staged # 0,
     hadDeployed |-> c.sites[name].deployed # 0,
     lOk |-> lOk]

\* The site's service as published by its latest UpdateDeployedWithStaged.
PubAfter(kind, name, res, c) ==
    IF res # Ok THEN pubUpd
    ELSE IF kind = UpdateDeployedWithStagedK
         THEN [pubUpd EXCEPT ![name] = get_svc(c, name)]
    ELSE IF kind \in {DeployNewFromStagedK, CreateAndDeployK, RemoveServiceK}
         THEN [pubUpd EXCEPT ![name] = 0]
    ELSE pubUpd

\* upd.result.send(...): the reply leaves in the step that ends execute.
SendReply(id, kind, name, r, found) ==
    /\ replied' = replied + 1
    /\ lastReply' = [id |-> id, kind |-> kind, name |-> name, res |-> r.res] @@ found
    /\ pubUpd' = PubAfter(kind, name, r.res, r.c)
    /\ SetCore(r.c)

\* ------------------------------------------------------ orchestrator data
Workers == 1..NumWorkers

NoTask == [d |-> 0, kind |-> NoName, name |-> NoName]

\* WorkerManager::default(): no site, nothing built.
NewWorkerManager ==
    [sites |-> [s \in Sites |-> Absent],
     slot |-> [l \in Ids |-> 0],
     loops |-> [l \in Ids |-> NoLoop],
     rc |-> [v \in Ids |-> 0],
     nsvc |-> 0,
     nloop |-> 0,
     madeFrom |-> [v \in Ids |-> 0]]

\* WorkerFleetOrchestrator after spawn_workers_*: one channel and one thread
\* per worker, every thread in run_controller with an empty inbox.
FleetInit ==
    /\ orch = [pc |-> "idle", i |-> 0, d |-> 0, kind |-> NoName, name |-> NoName,
               gone |-> {}]
    /\ results = << >>
    /\ replyRx = [w \in Workers |-> "none"]
    /\ walive = [w \in Workers |-> TRUE]
    /\ winbox = [w \in Workers |-> << >>]
    /\ wrun = [w \in Workers |-> NoTask]
    /\ wcore = [w \in Workers |-> NewWorkerManager]
    /\ wlast = [w \in Workers |-> NoTask @@ [res |-> NoName]]
    /\ finishTx = [w \in Workers |-> FALSE]

\* The worker thread has entered run_controller; its listeners have yielded
\* nothing yet.
LifeInit ==
    /\ rxClosed = FALSE
    /\ thread = "controller"
    /\ acceptErrs = [l \in Ids |-> 0]

\* CPU masks: a core number, or every core.
AllCores == 0 - 1
NotSpawned == 0 - 2

\* spawn_workers_inner is entered with some runtime_config; `avail` is
\* std::thread::available_parallelism() (0: it failed).
SpawnInit ==
    \E n \in 1..MaxThreads, a \in BOOLEAN, k \in 0..MaxCores :
        spawn = [threads |-> n, cpu_affinity |-> a, avail |-> k,
                 pc |-> "spawn", worker_id |-> 0, main |-> AllCores,
                 pin |-> [i \in 0..(MaxThreads - 1) |-> NotSpawned]]

\* spawn_workers_inner has returned: NumWorkers threads, nothing pinned.
Spawned ==
    [threads |-> NumWorkers, cpu_affinity |-> FALSE, avail |-> 0,
     pc |-> "done", worker_id |-> NumWorkers, main |-> AllCores,
     pin |-> [i \in 0..(MaxThreads - 1) |->
                IF i < NumWorkers THEN AllCores ELSE NotSpawned]]

\* --------------------------------------------------------- service factories
\* The wrapping layers: each is a Service and the factory of itself around
\* an inner factory F.
Wrappers == {"TimeoutService", "DelayService", "EraseResp", "HttpCoreService",
             "RustlsService"}

\* The handlers at the bottom of a pipeline.  "F" is the type parameter of
\* the wrappers: some inner factory whose make_via_ref may return Err.
Handlers == {"ProxyHandler", "UpstreamHandler", "F"}

\* enum UnifiedTlsService / UnifiedTlsFactory
TlsVariants == {"Rustls", "Native", "None"}

RECURSIVE LayerStacks(_)
LayerStacks(n) ==
    IF n = 0 THEN {<< >>}
    ELSE LayerStacks(n - 1)
         \cup {<< w >> \o t : w \in Wrappers,
                              t \in {u \in LayerStacks(n - 1) : Len(u) = n - 1}}

\* The type of a pipeline, outermost layer first: the factory's type and
\* the type of the service it makes.  `old: Option<&Self::Service>` always
\* has the factory's own service type; only the variant of the TLS enum and
\* the fields of the layers can differ between the old and the new service.
Pipelines ==
    {tls \o ws \o << h >> : tls \in {<< >>, << "UnifiedTls" >>},
                            ws \in LayerStacks(MaxLayers), h \in Handlers}

\* A factory value of pipeline type p.
Factories(p) ==
    {[pipeline |-> p, tls |-> v, fails |-> e] :
        v \in IF Head(p) = "UnifiedTls" THEN TlsVariants ELSE {"None"},
        e \in IF p[Len(p)] = "F" THEN BOOLEAN ELSE {FALSE}}

\* The factories nested in factory f, outermost first:
\* UnifiedTlsFactory::Rustls(RustlsServiceFactory<F>), ::Native(
\* NativeTlsServiceFactory<F>) or ::None(F).
Levels(f) ==
    IF Head(f.pipeline) # "UnifiedTls" THEN f.pipeline
    ELSE << "UnifiedTls" >>
         \o (IF f.tls = "Rustls" THEN << "RustlsService" >>
             ELSE IF f.tls = "Native" THEN << "NativeTlsService" >>
             ELSE << >>)
         \o Tail(f.pipeline)

\* One layer of a service value; `pool` identifies the connection pool a
\* handler owns (0: the layer has none).
Layer(k, v, pool) == [kind |-> k, variant |-> v, pool |-> pool]

\* Option<&Service>: a service is the sequence of its layers, outermost first.
NoSvc == [some |-> FALSE, svc |-> << >>]
SomeSvc(s) == [some |-> TRUE, svc |-> s]

NoError == [cause |-> "none", any |-> FALSE]
InnerError == [cause |-> "F::Error", any |-> FALSE]

\* `.map_err(Into::into)` into AnyError
IntoAnyError(e) == [e EXCEPT !.any = TRUE]

\* A wrapper that hands no old service to its inner factory.
inner_dropped(old) == NoSvc

\* old.map(|o| &o.inner)
inner_of(old) == IF old.some THEN SomeSvc(Tail(old.svc)) ELSE NoSvc

\* NativeTlsServiceFactory::make_via_ref hands old.inner down as the
\* Rustls factory does.
native_inner_of(old) == IF old.some THEN SomeSvc(Tail(old.svc)) ELSE NoSvc

\* as_rustls / as_native / as_none that take Rustls for Native and back.
as_variant_loose(old, v) ==
    IF old.some /\ (Head(old.svc).variant = "None") = (v = "None")
    THEN SomeSvc(Tail(old.svc)) ELSE NoSvc

\* UnifiedTlsService::as_rustls / as_native / as_none
as_variant(old, v) ==
    IF old.some /\ Head(old.svc).variant = v
    THEN SomeSvc(Tail(old.svc)) ELSE NoSvc

\* ProxyHandlerFactory::make_via_ref(_old): a connector with a new pool.
ProxyHandlerMake(old, np) ==
    [ok |-> TRUE, svc |-> << Layer("ProxyHandler", "-", np + 1) >>,
     err |-> NoError, calls |-> << old >>, npool |-> np + 1]

\* UpstreamHandlerFactory::make_via_ref(_old): connectors with new pools.
UpstreamHandlerMake(old, np) ==
    [ok |-> TRUE, svc |-> << Layer("UpstreamHandler", "-", np + 1) >>,
     err |-> NoError, calls |-> << old >>, npool |-> np + 1]

\* F::make_via_ref(old) of the innermost type parameter: Ok or Err.
InnerMake(f, old, np) ==
    IF f.fails
    THEN [ok |-> FALSE, svc |-> << >>, err |-> InnerError,
          calls |-> << old >>, npool |-> np]
    ELSE [ok |-> TRUE, svc |-> << Layer("F", "-", 0) >>, err |-> NoError,
          calls |-> << old >>, npool |-> np]

\* make_via_ref of the factory levels ls of factory f.  The result carries
\* the service or the error, and `calls`: the `old` each nested factory was
\* called with, outermost first.
RECURSIVE make_via_ref(_, _, _, _)
make_via_ref(ls, f, old, np) ==
    LET k == Head(ls) IN
    IF k = "ProxyHandler" THEN ProxyHandlerMake(old, np)
    ELSE IF k = "UpstreamHandler" THEN UpstreamHandlerMake(old, np)
    ELSE IF k = "F" THEN InnerMake(f, old, np)
    ELSE LET arg == IF k = "UnifiedTls" THEN as_variant(old, f.tls)
                    ELSE IF k = "NativeTlsService" THEN native_inner_of(old)
                    ELSE inner_of(old)
             r == make_via_ref(Tail(ls), f, arg, np)
             v == IF k = "UnifiedTls" THEN f.tls ELSE "-"
         IN IF r.ok
            THEN [r EXCEPT !.svc = << Layer(k, v, 0) >> \o @,
                           !.calls = << old >> \o @]
            ELSE [r EXCEPT !.err = IF k = "UnifiedTls" THEN IntoAnyError(@)
                                   ELSE @,
                           !.calls = << old >> \o @]

NoBuild ==
    [hot |-> FALSE, f |-> [pipeline |-> << >>, tls |-> "None", fails |-> FALSE],
     old |-> NoSvc,
     res |-> [ok |-> FALSE, svc |-> << >>, err |-> NoError, calls |-> << >>,
              npool |-> 0]]

\* No pipeline is being built.
NoPipeline ==
    [pipeline |-> << >>, cur |-> NoSvc, last |-> NoBuild, npool |-> 0,
     nbuild |-> 0]

\* A site of pipeline type p before its first CreateAndDeploy or StageService.
FactoryInit ==
    \E p \in Pipelines :
        fac = [pipeline |-> p, cur |-> NoSvc, last |-> NoBuild, npool |-> 0,
               nbuild |-> 0]


\* WorkerManager::default() on a thread that has just entered run_controller.
WorkerInit ==
    /\ inbox = << >>
    /\ nextId = 0
    /\ ctl = Idle
    /\ sites = [s \in Sites |-> Absent]
    /\ slot = [l \in Ids |-> 0]
    /\ loops = [l \in Ids |-> NoLoop]
    /\ rc = [v \in Ids |-> 0]
    /\ nsvc = 0
    /\ nloop = 0
    /\ madeFrom = [v \in Ids |-> 0]
    /\ conns = << >>
    /\ replied = 0
    /\ lastReply = [id |-> 0, kind |-> NoName, name |-> NoName, res |-> Ok]
                     @@ Found(Core, "a", TRUE)
    /\ pubUpd = [s \in Sites |-> 0]
    /\ pre = View(Core)

Init ==
    /\ WorkerInit
    /\ FleetInit
    /\ LifeInit
    /\ spawn = Spawned
    /\ fac = NoPipeline

\* A sender that counts a task as sent but loses it when the inbox is full.
EnqueueLossy(k, n) ==
    /\ nextId < MaxDirectives
    /\ nextId' = nextId + 1
    /\ inbox' = IF Len(inbox) < MaxInbox
                THEN Append(inbox, [id |-> nextId + 1, kind |-> k, name |-> n])
                ELSE inbox
    /\ UNCHANGED << fleet, life, spawn, fac, ctl, sites, slot, loops, rc, nsvc, nloop, madeFrom,
                    conns, replied, lastReply, pubUpd, pre >>

\* A sender feeds one more task into the inbox: `feed` resolves once the
\* channel has room.
Enqueue(k, n) ==
    /\ nextId < MaxDirectives
    /\ Len(inbox) < MaxInbox
    /\ nextId' = nextId + 1
    /\ inbox' = Append(inbox, [id |-> nextId + 1, kind |-> k, name |-> n])
    /\ UNCHANGED << fleet, life, spawn, fac, ctl, sites, slot, loops, rc, nsvc, nloop, madeFrom,
                    conns, replied, lastReply, pubUpd, pre >>

\* StageService up to `factory.make_via_ref(current_svc).await`.
StageBegin ==
    /\ CtlReady(StageServiceK)
    /\ LET t == Head(inbox)
           old == get_svc(Core, t.name)
       IN /\ ctl' = [Idle EXCEPT !.pc = "stage_make", !.id = t.id, !.kind = t.kind,
                                 !.name = t.name, !.old = old]
          /\ rc' = RcClone(rc, old)
    /\ inbox' = Tail(inbox)
    /\ pre' = View(Core)
    /\ UNCHANGED << fleet, life, spawn, fac, nextId, sites, slot, loops, nsvc, nloop, madeFrom,
                    conns, replied, lastReply, pubUpd >>

StageMake(fOk) ==
    /\ ctl.pc = "stage_make"
    /\ LET c0 == [Core EXCEPT !.rc = RcDrop(@, ctl.old)] IN
       SendReply(ctl.id, ctl.kind, ctl.name,
                 StageFinish(c0, ctl.name, ctl.old, fOk),
                 Found(Core, ctl.name, TRUE))
    /\ ctl' = Idle
    /\ UNCHANGED << fleet, life, spawn, fac, inbox, nextId, conns, pre >>

StageMakeOk == StageMake(TRUE)

StageMakeErr == StageMake(FALSE)

\* The directives without an await are dequeued, executed and answered in
\* one turn of the controller.
UpdateDeployedWithStaged ==
    /\ CtlReady(UpdateDeployedWithStagedK)
    /\ LET t == Head(inbox) IN
       SendReply(t.id, t.kind, t.name, RunUpdate(Core, t.name), Found(Core, t.name, TRUE))
    /\ inbox' = Tail(inbox)
    /\ pre' = View(Core)
    /\ UNCHANGED << fleet, life, spawn, fac, nextId, ctl, conns >>

AbortStaging ==
    /\ CtlReady(AbortStagingK)
    /\ LET t == Head(inbox) IN
       SendReply(t.id, t.kind, t.name, RunAbort(Core, t.name), Found(Core, t.name, TRUE))
    /\ inbox' = Tail(inbox)
    /\ pre' = View(Core)
    /\ UNCHANGED << fleet, life, spawn, fac, nextId, ctl, conns >>

RemoveService ==
    /\ CtlReady(RemoveServiceK)
    /\ LET t == Head(inbox) IN
       SendReply(t.id, t.kind, t.name, RunRemove(Core, t.name), Found(Core, t.name, TRUE))
    /\ inbox' = Tail(inbox)
    /\ pre' = View(Core)
    /\ UNCHANGED << fleet, life, spawn, fac, nextId, ctl, conns >>

\* DeployNewFromStaged up to `listener_factory.make().await`.
DeployBegin ==
    /\ CtlReady(DeployNewFromStagedK)
    /\ LET t == Head(inbox) IN
       ctl' = [Idle EXCEPT !.pc = "deploy_listener", !.id = t.id, !.kind = t.kind,
                           !.name = t.name]
    /\ inbox' = Tail(inbox)
    /\ pre' = View(Core)
    /\ UNCHANGED << fleet, life, spawn, fac, nextId, sites, slot, loops, rc, nsvc, nloop, madeFrom,
                    conns, replied, lastReply, pubUpd >>

DeployListener(lOk) ==
    /\ ctl.pc = "deploy_listener"
    /\ SendReply(ctl.id, ctl.kind, ctl.name, RunDeployNew(Core, ctl.name, lOk),
                 Found(Core, ctl.name, lOk))
    /\ ctl' = Idle
    /\ UNCHANGED << fleet, life, spawn, fac, inbox, nextId, conns, pre >>

DeployListenerOk == DeployListener(TRUE)

DeployListenerErr == DeployListener(FALSE)

\* CreateAndDeploy up to `factory.make().await`.
CreateBegin ==
    /\ CtlReady(CreateAndDeployK)
    /\ LET t == Head(inbox) IN
       ctl' = [Idle EXCEPT !.pc = "create_make", !.id = t.id, !.kind = t.kind,
                           !.name = t.name]
    /\ inbox' = Tail(inbox)
    /\ pre' = View(Core)
    /\ UNCHANGED << fleet, life, spawn, fac, nextId, sites, slot, loops, rc, nsvc, nloop, madeFrom,
                    conns, replied, lastReply, pubUpd >>

\* The service is built; next await is `listener_factory.make().await`.
CreateMakeOk ==
    /\ ctl.pc = "create_make"
    /\ ctl' = [ctl EXCEPT !.pc = "create_listener", !.svc = nsvc + 1]
    /\ SetCore(NewSvc(Core, 0))
    /\ UNCHANGED << fleet, life, spawn, fac, inbox, nextId, conns, replied, lastReply, pubUpd, pre >>

CreateMakeErr ==
    /\ ctl.pc = "create_make"
    /\ SendReply(ctl.id, ctl.kind, ctl.name, RunCreate(Core, ctl.name, FALSE, TRUE),
                 Found(Core, ctl.name, TRUE))
    /\ ctl' = Idle
    /\ UNCHANGED << fleet, life, spawn, fac, inbox, nextId, conns, pre >>

CreateListener(lOk) ==
    /\ ctl.pc = "create_listener"
    /\ SendReply(ctl.id, ctl.kind, ctl.name,
                 CreateFinish(Core, ctl.name, ctl.svc, lOk),
                 Found(Core, ctl.name, lOk))
    /\ ctl' = Idle
    /\ UNCHANGED << fleet, life, spawn, fac, inbox, nextId, conns, pre >>

CreateListenerOk == CreateListener(TRUE)

CreateListenerErr == CreateListener(FALSE)

\* ------------------------------------------------------------------ serve
\* The accept branch of monoio::select! in serve: select! starts polling at
\* a branch picked at random, so a ready accept can win over a cancellation
\* that is ready too.
AcceptBranchReady(lp) == lp.st = "live"

\* A cancellation future that never resolves.
CancelBranchNever(lp) == FALSE

\* The cancellation branch: the stop receiver has been dropped.
CancelBranchReady(lp) == lp.st = "live" /\ lp.stop # "none"

\* An accept loop that hands a connection to the staged service of its site
\* when there is one.
AcceptStaged(l) ==
    /\ AcceptBranchReady(loops[l])
    /\ Len(conns) < MaxConns
    /\ LET st == sites[loops[l].site].staged
           svc == IF st # 0 THEN st ELSE SlotGetSvc(Core, l)
       IN /\ rc' = RcClone(rc, svc)
          /\ conns' = Append(conns,
                 [loop |-> l, site |-> loops[l].site, svc |-> svc, live |-> TRUE,
                  expect |-> pubUpd[loops[l].site],
                  stopAtAccept |-> loops[l].stop,
                  errsBefore |-> acceptErrs[l]])
    /\ UNCHANGED << fleet, life, spawn, fac, inbox, nextId, ctl, sites, slot, loops, nsvc, nloop,
                    madeFrom, replied, lastReply, pubUpd, pre >>

\* Ok(accept): read the slot, spawn the connection task.
Accept(l) ==
    /\ AcceptBranchReady(loops[l])
    /\ Len(conns) < MaxConns
    /\ LET svc == SlotGetSvc(Core, l) IN
       /\ rc' = RcClone(rc, svc)
       /\ conns' = Append(conns,
              [loop |-> l, site |-> loops[l].site, svc |-> svc, live |-> TRUE,
               expect |-> pubUpd[loops[l].site],
               stopAtAccept |-> loops[l].stop,
               errsBefore |-> acceptErrs[l]])
    /\ UNCHANGED << fleet, life, spawn, fac, inbox, nextId, ctl, sites, slot, loops, nsvc, nloop,
                    madeFrom, replied, lastReply, pubUpd, pre >>

\* A serve that takes the site entry of its site away when it returns.
ServeReturnClearsSite(l) ==
    /\ loops' = [loops EXCEPT ![l].st = "returned"]
    /\ sites' = [s \in Sites |->
                   IF sites[s].present /\ sites[s].deployed = l
                   THEN Absent ELSE sites[s]]
    /\ slot' = [slot EXCEPT ![l] = 0]
    /\ rc' = RcDrop(rc, slot[l])
    /\ UNCHANGED << fleet, life, spawn, fac, inbox, nextId, ctl, nsvc, nloop, madeFrom, conns,
                    replied, lastReply, pubUpd, pre >>

\* serve returns: listener, slot clone and stop sender are dropped; the cell
\* goes with the last clone of the slot.
ServeReturn(l) ==
    /\ loops' = [loops EXCEPT ![l].st = "returned"]
    /\ IF \E s \in Sites : sites[s].present /\ sites[s].deployed = l
       THEN UNCHANGED << slot, rc >>
       ELSE /\ slot' = [slot EXCEPT ![l] = 0]
            /\ rc' = RcDrop(rc, slot[l])
    /\ UNCHANGED << fleet, life, spawn, fac, inbox, nextId, ctl, sites, nsvc, nloop, madeFrom, conns,
                    replied, lastReply, pubUpd, pre >>

\* "server is notified to stop"
LoopStop(l) ==
    /\ CancelBranchReady(loops[l])
    /\ ServeReturn(l)

\* "listener is closed, serve stopped"
ListenerClosed(l) ==
    /\ AcceptBranchReady(loops[l])
    /\ ServeReturn(l)

\* svc.call(accept) resolves; the task ends and drops its service handle.
ConnFinish(i) ==
    /\ conns[i].live
    /\ conns' = [conns EXCEPT ![i].live = FALSE]
    /\ rc' = RcDrop(rc, conns[i].svc)
    /\ UNCHANGED << fleet, life, spawn, fac, inbox, nextId, ctl, sites, slot, loops, nsvc, nloop,
                    madeFrom, replied, lastReply, pubUpd, pre >>

Next ==
    \/ \E k \in WorkerDirective, n \in Sites : Enqueue(k, n)
    \/ StageBegin
    \/ StageMakeOk
    \/ StageMakeErr
    \/ UpdateDeployedWithStaged
    \/ DeployBegin
    \/ DeployListenerOk
    \/ DeployListenerErr
    \/ CreateBegin
    \/ CreateMakeOk
    \/ CreateMakeErr
    \/ CreateListenerOk
    \/ CreateListenerErr
    \/ AbortStaging
    \/ RemoveService
    \/ \E l \in Ids : Accept(l)
    \/ \E l \in Ids : LoopStop(l)
    \/ \E l \in Ids : ListenerClosed(l)
    \/ \E i \in 1..Len(conns) : ConnFinish(i)

Spec == Init /\ [][Next]_vars

\* ----------------------------------------- WorkerFleetOrchestrator, workers
\* Results the orchestrator makes up itself: the error of Sender::feed on a
\* channel whose receiver is gone, and the error of a reply receiver whose
\* sender was dropped without a reply.
SendError == "SendError"
Canceled == "Canceled"

\* Sender::feed that does not notice the receiver is gone.
SenderAlwaysOpen(w) == TRUE

\* The receiver of worker w's channel exists as long as its thread runs
\* run_controller.
SenderOpen(w) == walive[w]

\* `for sender in self.workers.iter_mut()`: next worker, or out of the loop.
NextWorker(o) ==
    IF o.i = NumWorkers THEN [o EXCEPT !.pc = "done"]
    ELSE [o EXCEPT !.pc = "feed", !.i = @ + 1]

\* A feed arm that goes on to the next worker and collects replies later.
AfterFeedNoWait(o) == NextWorker(o)

\* `Ok(_) => match rx.await`: after a successful feed the orchestrator
\* awaits that worker's reply.
AfterFeed(o) == [o EXCEPT !.pc = "wait"]

\* A push that keeps results of workers only, none for a failed send.
PushFailureSkipped(rs, e) == rs

\* `Err(e) => results.push(Err(e.into()))`
PushFailure(rs, e) == Append(rs, e)

\* dispatch_directive is called with a directive.
Dispatch(k, n) ==
    /\ orch.pc = "idle"
    /\ orch.d < MaxDispatch
    /\ orch' = NextWorker([pc |-> "feed", i |-> 0, d |-> orch.d + 1,
                           kind |-> k, name |-> n,
                           gone |-> {w \in Workers : ~walive[w]}])
    /\ results' = << >>
    /\ replyRx' = [w \in Workers |-> "none"]
    /\ wlast' = [w \in Workers |-> NoTask @@ [res |-> NoName]]
    /\ UNCHANGED << wvars, life, spawn, fac, finishTx, walive, winbox, wrun, wcore >>

\* A feed that hands the task to every worker from this one on at once.
FeedOkFanOut ==
    /\ orch.pc = "feed"
    /\ SenderOpen(orch.i)
    /\ winbox' = [w \in Workers |->
                    IF w >= orch.i /\ walive[w]
                    THEN Append(winbox[w], [d |-> orch.d, kind |-> orch.kind,
                                            name |-> orch.name])
                    ELSE winbox[w]]
    /\ replyRx' = [replyRx EXCEPT ![orch.i] = "pending"]
    /\ orch' = AfterFeed(orch)
    /\ UNCHANGED << wvars, life, spawn, fac, finishTx, results, walive, wrun, wcore, wlast >>

\* WorkerDirectiveTask::new(cmd.clone()) and sender.feed(upd) -> Ok
FeedOk ==
    /\ orch.pc = "feed"
    /\ SenderOpen(orch.i)
    /\ winbox' = [winbox EXCEPT ![orch.i] =
                     Append(@, [d |-> orch.d, kind |-> orch.kind, name |-> orch.name])]
    /\ replyRx' = [replyRx EXCEPT ![orch.i] = "pending"]
    /\ orch' = AfterFeed(orch)
    /\ UNCHANGED << wvars, life, spawn, fac, finishTx, results, walive, wrun, wcore, wlast >>

\* sender.feed(upd) -> Err: the task, with its reply sender, is dropped.
FeedErr ==
    /\ orch.pc = "feed"
    /\ ~SenderOpen(orch.i)
    /\ results' = PushFailure(results, SendError)
    /\ orch' = NextWorker(orch)
    /\ UNCHANGED << wvars, life, spawn, fac, finishTx, replyRx, walive, winbox, wrun, wcore, wlast >>

\* rx.await -> Ok(r)
AwaitOk ==
    /\ orch.pc = "wait"
    /\ replyRx[orch.i] \in {Ok} \cup CommandError
    /\ results' = Append(results, replyRx[orch.i])
    /\ orch' = NextWorker(orch)
    /\ UNCHANGED << wvars, life, spawn, fac, finishTx, replyRx, walive, winbox, wrun, wcore, wlast >>

\* rx.await -> Err(Canceled)
AwaitErr ==
    /\ orch.pc = "wait"
    /\ replyRx[orch.i] = "cancelled"
    /\ results' = PushFailure(results, Canceled)
    /\ orch' = NextWorker(orch)
    /\ UNCHANGED << wvars, life, spawn, fac, finishTx, replyRx, walive, winbox, wrun, wcore, wlast >>

\* `results.into()`: dispatch_directive returns the ResultGroup.
DispatchReturn ==
    /\ orch.pc = "done"
    /\ orch' = [orch EXCEPT !.pc = "idle"]
    /\ UNCHANGED << wvars, life, spawn, fac, finishTx, results, replyRx, walive, winbox, wrun, wcore, wlast >>

\* run_controller of worker w: rx.next() yields the next task.
WorkerTake(w) ==
    /\ walive[w]
    /\ wrun[w] = NoTask
    /\ winbox[w] # << >>
    /\ wrun' = [wrun EXCEPT ![w] = Head(winbox[w])]
    /\ winbox' = [winbox EXCEPT ![w] = Tail(@)]
    /\ UNCHANGED << wvars, life, spawn, fac, finishTx, orch, results, replyRx, walive, wcore, wlast >>

\* run_controller over one WorkerManager shared by every worker.
WorkerExecuteShared(w, fOk, lOk) ==
    /\ walive[w]
    /\ wrun[w] # NoTask
    /\ LET t == wrun[w]
           r == RunDirective(wcore[w], t.kind, t.name, fOk, lOk)
       IN /\ wcore' = [v \in Workers |-> r.c]
          /\ replyRx' = [replyRx EXCEPT ![w] = r.res]
          /\ wlast' = [wlast EXCEPT ![w] = t @@ [res |-> r.res]]
    /\ wrun' = [wrun EXCEPT ![w] = NoTask]
    /\ UNCHANGED << wvars, life, spawn, fac, finishTx, orch, results, walive, winbox >>

\* run_controller of worker w: the directive has executed on the worker's
\* own WorkerManager and its result is sent back.
WorkerExecute(w, fOk, lOk) ==
    /\ walive[w]
    /\ wrun[w] # NoTask
    /\ LET t == wrun[w]
           r == RunDirective(wcore[w], t.kind, t.name, fOk, lOk)
       IN /\ wcore' = [wcore EXCEPT ![w] = r.c]
          /\ replyRx' = [replyRx EXCEPT ![w] = r.res]
          /\ wlast' = [wlast EXCEPT ![w] = t @@ [res |-> r.res]]
    /\ wrun' = [wrun EXCEPT ![w] = NoTask]
    /\ UNCHANGED << wvars, life, spawn, fac, finishTx, orch, results, walive, winbox >>

\* The thread of worker w panics: the channel receiver, the queued tasks and
\* the task in execution are dropped, and with them their reply senders;
\* the worker's WorkerManager goes with the thread.
WorkerPanic(w) ==
    /\ walive[w]
    /\ walive' = [walive EXCEPT ![w] = FALSE]
    /\ winbox' = [winbox EXCEPT ![w] = << >>]
    /\ wrun' = [wrun EXCEPT ![w] = NoTask]
    /\ replyRx' = [replyRx EXCEPT ![w] = IF @ = "pending" THEN "cancelled" ELSE @]
    /\ wcore' = [wcore EXCEPT ![w] = NewWorkerManager]
    /\ UNCHANGED << wvars, life, spawn, fac, finishTx, orch, results, wlast >>

FleetNext ==
    \/ \E k \in WorkerDirective, n \in Sites : Dispatch(k, n)
    \/ FeedOk
    \/ FeedErr
    \/ AwaitOk
    \/ AwaitErr
    \/ DispatchReturn
    \/ \E w \in Workers : WorkerTake(w)
    \/ \E w \in Workers, fOk \in BOOLEAN, lOk \in BOOLEAN : WorkerExecute(w, fOk, lOk)
    \/ \E w \in Workers : WorkerPanic(w)

FleetSpec == Init /\ [][FleetNext]_vars

\* The caller of spawn_workers_async sends on the one-shot sender it got
\* for worker w.  The worker's closure only closes finish_rx after
\* run_controller has returned; nothing in the thread awaits it.
SignalFinish(w) ==
    /\ ~finishTx[w]
    /\ finishTx' = [finishTx EXCEPT ![w] = TRUE]
    /\ UNCHANGED << wvars, life, spawn, fac, orch, results, replyRx, walive, winbox, wrun,
                    wcore, wlast >>

SignalNext ==
    \/ FleetNext
    \/ \E w \in Workers : SignalFinish(w)

\* Every worker thread runs its controller on its own OS thread: a task in
\* its inbox is taken and a task taken is executed and answered.
FleetFairness ==
    \A w \in Workers :
        /\ WF_vars(WorkerTake(w))
        /\ WF_vars(\E fOk \in BOOLEAN, lOk \in BOOLEAN : WorkerExecute(w, fOk, lOk))

SignalSpec == Init /\ [][SignalNext]_vars /\ FleetFairness

\* ------------------------------------------------ one worker thread's life
\* dispatch_directive is the only sender: it feeds a worker its next task
\* after the worker has answered the previous one.
Feed(k, n) ==
    /\ ~rxClosed
    /\ nextId = replied
    /\ nextId < MaxFeeds
    /\ Enqueue(k, n)

\* A serve that returns on the first error of its listener.
AcceptErrReturns(l) ==
    /\ AcceptBranchReady(loops[l])
    /\ acceptErrs[l] < MaxAcceptErrs
    /\ acceptErrs' = [acceptErrs EXCEPT ![l] = @ + 1]
    /\ loops' = [loops EXCEPT ![l].st = "returned"]
    /\ UNCHANGED << fleet, spawn, fac, rxClosed, thread, inbox, nextId, ctl, sites, slot, rc,
                    nsvc, nloop, madeFrom, conns, replied, lastReply, pubUpd, pre >>

\* Err(e) from the listener: a warning is logged and the loop goes on.
AcceptErr(l) ==
    /\ AcceptBranchReady(loops[l])
    /\ acceptErrs[l] < MaxAcceptErrs
    /\ \A m \in Ids : m # l => acceptErrs[m] = 0
    /\ acceptErrs' = [acceptErrs EXCEPT ![l] = @ + 1]
    /\ UNCHANGED << wvars, fleet, spawn, fac, rxClosed, thread >>

\* The WorkerFleetOrchestrator, and with it every Sender of the worker's
\* channel, is dropped.
CloseInbox ==
    /\ ~rxClosed
    /\ rxClosed' = TRUE
    /\ UNCHANGED << wvars, fleet, spawn, fac, thread, acceptErrs >>

\* The WorkerManager goes out of scope: every ServiceDeploymentManager is
\* dropped, staged services with it, and every deployed record, which
\* signals its accept loop.
RECURSIVE DropSites(_, _)
DropSites(c, todo) ==
    IF todo = {} THEN c
    ELSE LET s == CHOOSE x \in todo : TRUE
             sh == c.sites[s]
             c1 == [c EXCEPT !.sites[s] = Absent, !.rc = RcDrop(@, sh.staged)]
             c2 == IF sh.present /\ sh.deployed # 0
                   THEN DropServiceManager(c1, sh.deployed, "shutdown")
                   ELSE c1
         IN DropSites(c2, todo \ {s})

\* A run_controller that returns as soon as the last Sender is gone,
\* whatever is still queued.
ControllerReturnEarly ==
    /\ thread = "controller"
    /\ rxClosed
    /\ ctl.pc = "idle"
    /\ thread' = "draining"
    /\ SetCore(DropSites(Core, Sites))
    /\ UNCHANGED << fleet, spawn, fac, rxClosed, acceptErrs, inbox, nextId, ctl, conns,
                    replied, lastReply, pubUpd, pre >>

\* rx.next() yields None once the channel is closed and empty: the
\* `while let` of run_controller ends, the async block of the worker
\* finishes and drops the WorkerManager.
ControllerReturn ==
    /\ thread = "controller"
    /\ rxClosed
    /\ inbox = << >>
    /\ ctl.pc = "idle"
    /\ thread' = "draining"
    /\ SetCore(DropSites(Core, Sites))
    /\ UNCHANGED << fleet, spawn, fac, rxClosed, acceptErrs, inbox, nextId, ctl, conns,
                    replied, lastReply, pubUpd, pre >>

\* RuntimeWrapper::block_on: the thread leaves the runtime once the tasks
\* spawned on it have finished.
ThreadExit ==
    /\ thread = "draining"
    /\ \A l \in Ids : loops[l].st # "live"
    /\ \A i \in 1..Len(conns) : ~conns[i].live
    /\ thread' = "exited"
    /\ UNCHANGED << wvars, fleet, spawn, fac, rxClosed, acceptErrs >>

\* A step of run_controller / Execute::execute.
ControllerStep ==
    \/ StageBegin
    \/ StageMakeOk
    \/ StageMakeErr
    \/ UpdateDeployedWithStaged
    \/ DeployBegin
    \/ DeployListenerOk
    \/ DeployListenerErr
    \/ CreateBegin
    \/ CreateMakeOk
    \/ CreateMakeErr
    \/ CreateListenerOk
    \/ CreateListenerErr
    \/ AbortStaging
    \/ RemoveService
    \/ ControllerReturn

LifeNext ==
    \/ \E k \in WorkerDirective, n \in Sites : Feed(k, n)
    \/ ControllerStep
    \/ \E l \in Ids : Accept(l)
    \/ \E l \in Ids : AcceptErr(l)
    \/ \E l \in Ids : LoopStop(l)
    \/ \E l \in Ids : ListenerClosed(l)
    \/ \E i \in 1..Len(conns) : ConnFinish(i)
    \/ CloseInbox
    \/ ThreadExit

LifeSpec == Init /\ [][LifeNext]_vars

\* The same thread with listeners that yield no error, under the scheduling
\* of its executor.
FairNext ==
    \/ \E k \in WorkerDirective, n \in Sites : Feed(k, n)
    \/ ControllerStep
    \/ \E l \in Ids : Accept(l)
    \/ \E l \in Ids : LoopStop(l)
    \/ \E l \in Ids : ListenerClosed(l)
    \/ \E i \in 1..Len(conns) : ConnFinish(i)
    \/ CloseInbox
    \/ ThreadExit

\* The executor polls every task that is ready: the controller goes on when
\* it has a task or its channel is closed (the futures of the factories
\* resolve), a signalled accept loop gets to take its cancellation branch,
\* and the thread leaves the runtime when nothing is left to run.
LifeFairness ==
    /\ WF_vars(ControllerStep)
    /\ \A l \in Ids : WF_vars(LoopStop(l))
    /\ WF_vars(ThreadExit)

FairSpec == Init /\ [][FairNext]_vars /\ LifeFairness

\* ------------------------------------------------------ spawn_workers_inner
\* `cores`: Some(n) when cpu_affinity is set and available_parallelism() is
\* known, else None (0).
Cores(sp) == IF sp.cpu_affinity THEN sp.avail ELSE 0

\* std::thread::Builder::spawn: the new thread starts with the CPU mask of
\* the thread that creates it.
SpawnThread ==
    /\ spawn.pc = "spawn"
    /\ spawn' = [spawn EXCEPT !.pc = "bind", !.pin[spawn.worker_id] = spawn.main]
    /\ UNCHANGED << wvars, fleet, life, fac >>

\* bind_to_cpu_set([worker_id % cores]) pins the thread that calls it, which
\* is the thread running spawn_workers_inner; then self.workers.push(tx)
\* and the next worker_id.
BindCpu(bindOk) ==
    /\ spawn.pc = "bind"
    /\ LET cores == Cores(spawn)
           next == spawn.worker_id + 1
       IN spawn' = [spawn EXCEPT
                      !.main = IF cores # 0 /\ bindOk
                               THEN spawn.worker_id % cores ELSE @,
                      !.worker_id = next,
                      !.pc = IF next = spawn.threads THEN "done" ELSE "spawn"]
    /\ UNCHANGED << wvars, fleet, life, fac >>

SpawnNext ==
    \/ SpawnThread
    \/ \E bindOk \in BOOLEAN : BindCpu(bindOk)

SpawnStart == WorkerInit /\ FleetInit /\ LifeInit /\ SpawnInit /\ fac = NoPipeline

SpawnSpec == SpawnStart /\ [][SpawnNext]_vars

\* ------------------------------------------------------ building a pipeline
\* The site's service after a build: a failed build leaves it as it was.
Built(old, f, hot) ==
    LET r == make_via_ref(Levels(f), f, old, fac.npool)
    IN fac' = [fac EXCEPT !.cur = IF r.ok THEN SomeSvc(r.svc) ELSE @,
                          !.last = [hot |-> hot, f |-> f, old |-> old, res |-> r],
                          !.npool = r.npool,
                          !.nbuild = @ + 1]

\* CreateAndDeploy: factory.make(), that is make_via_ref(None), and the
\* service deployed.
MakeNew(f) ==
    /\ fac.nbuild < MaxBuilds
    /\ Built(NoSvc, f, FALSE)
    /\ UNCHANGED << wvars, fleet, life, spawn >>

\* StageService: factory.make_via_ref(get_svc(name)), then the staged
\* service deployed by UpdateDeployedWithStaged or DeployNewFromStaged.
MakeViaRef(f) ==
    /\ fac.nbuild < MaxBuilds
    /\ Built(fac.cur, f, TRUE)
    /\ UNCHANGED << wvars, fleet, life, spawn >>

FactoryNext ==
    \/ \E f \in Factories(fac.pipeline) : MakeNew(f)
    \/ \E f \in Factories(fac.pipeline) : MakeViaRef(f)

FactoryStart ==
    WorkerInit /\ FleetInit /\ LifeInit /\ spawn = Spawned /\ FactoryInit

FactorySpec == FactoryStart /\ [][FactoryNext]_vars

\* ----------------------------------------------------------------- claims
Errors == CommandError

Replied(kinds) == replied > 0 /\ lastReply.kind \in kinds

LiveConns == {i \in 1..Len(conns) : conns[i].live}

LiveLoops(s) == {l \in Ids : loops[l].st = "live" /\ loops[l].site = s}

\* C1: directives are executed one at a time in inbox order: the directive
\* being executed and the ones still queued are exactly the next ones after
\* the last reply, in order, so every earlier directive has finished and
\* been answered, and replies leave in enqueue order.
InboxOrder ==
    LET pending == (IF ctl.pc = "idle" THEN << >> ELSE << ctl.id >>)
                      \o [i \in 1..Len(inbox) |-> inbox[i].id]
    IN /\ lastReply.id = replied
       /\ \A i \in 1..Len(pending) : pending[i] = replied + i

InboxOrderWitness ==
    /\ replied >= 1
    /\ ctl.pc # "idle"
    /\ inbox # << >>

\* C2 (as claimed): a connection accepted on a site whose latest publish was
\* an UpdateDeployedWithStaged is served by the service that update published.
AcceptedAfterUpdateGetsNew ==
    \A i \in 1..Len(conns) :
        conns[i].expect # 0 => conns[i].svc = conns[i].expect

\* C3: a connection task keeps the service it captured, and keeps it alive,
\* until it ends, whatever happens to the slot it came from; every slot
\* holds a whole, live service.
SnapshotHeld ==
    /\ \A i \in LiveConns :
          /\ conns[i].svc \in 1..nsvc
          /\ rc[conns[i].svc] >= Cardinality({j \in LiveConns : conns[j].svc = conns[i].svc})
    /\ \A l \in Ids : slot[l] # 0 => slot[l] \in 1..nsvc /\ rc[slot[l]] > 0

FailedDirectiveChangesNothing ==
    [][(replied' = replied + 1 /\ lastReply'.res \in Errors)
          => View(Core)' = pre']_vars

FailedDirectiveWitness ==
    /\ replied > 0
    /\ lastReply.res \in Errors
    /\ sites["a"].deployed # 0
    /\ sites["a"].staged # 0
    /\ LiveLoops("a") # {}

\* C5 (as claimed): at most one accept loop task exists per site.
AtMostOneAcceptLoop ==
    \A s \in Sites : Cardinality(LiveLoops(s)) <= 1

\* C6 (as claimed): no connection is accepted and handed to a service by an
\* accept loop whose site RemoveService has already removed.
NoAcceptAfterRemove ==
    \A i \in 1..Len(conns) : conns[i].stopAtAccept # "remove"

\* C7: a RemoveService that succeeds leaves every connection task as it is,
\* and the service each running task captured stays alive.
RemoveKeepsConnections ==
    [][(replied' = replied + 1 /\ lastReply'.kind = RemoveServiceK
            /\ lastReply'.res = Ok)
          => /\ conns' = conns
             /\ \A i \in LiveConns : rc'[conns[i].svc] > 0]_vars

RemoveKeepsConnectionsWitness ==
    /\ Replied({RemoveServiceK})
    /\ lastReply.res = Ok
    /\ \E i \in LiveConns :
          /\ conns[i].stopAtAccept = "none"
          /\ loops[conns[i].loop].stop = "remove"
          /\ rc[conns[i].svc] > 0

\* C8 (as claimed): a publish directive on a name with nothing staged
\* replies PreparationNotExist.
PublishUnstagedIsPreparationNotExist ==
    (Replied({UpdateDeployedWithStagedK, DeployNewFromStagedK}) /\ ~lastReply.hadStaged)
        => lastReply.res = "PreparationNotExist"

\* C8 (amended): a publish directive on a name with nothing staged never
\* succeeds; it replies BuildListener when the listener build fails,
\* SiteNotExist when there is no site entry, PreviousHandlerNotExist when it
\* is an update of an entry with nothing deployed, and PreparationNotExist
\* in every other case.
PublishUnstagedReply ==
    (Replied({UpdateDeployedWithStagedK, DeployNewFromStagedK}) /\ ~lastReply.hadStaged)
        => lastReply.res =
             (CASE ~lastReply.lOk -> "BuildListener"
                [] lastReply.lOk /\ ~lastReply.hadSite -> "SiteNotExist"
                [] lastReply.lOk /\ lastReply.hadSite
                     /\ lastReply.kind = UpdateDeployedWithStagedK
                     /\ ~lastReply.hadDeployed -> "PreviousHandlerNotExist"
                [] OTHER -> "PreparationNotExist")

PublishUnstagedWitness ==
    /\ Replied({UpdateDeployedWithStagedK, DeployNewFromStagedK})
    /\ lastReply.hadSite
    /\ ~lastReply.hadStaged
    /\ lastReply.res = "PreparationNotExist"

\* C9 (as claimed): an update of a name with nothing deployed replies
\* PreviousHandlerNotExist.
UpdateUndeployedIsPreviousHandlerNotExist ==
    (Replied({UpdateDeployedWithStagedK}) /\ ~lastReply.hadDeployed)
        => lastReply.res = "PreviousHandlerNotExist"

\* C9 (amended): an update of a name with nothing deployed replies
\* PreviousHandlerNotExist when the name has a site entry and SiteNotExist
\* when it has none.
UpdateUndeployedReply ==
    (Replied({UpdateDeployedWithStagedK}) /\ ~lastReply.hadDeployed)
        => lastReply.res = (IF lastReply.hadSite THEN "PreviousHandlerNotExist"
                                                 ELSE "SiteNotExist")

UpdateUndeployedWitness ==
    /\ Replied({UpdateDeployedWithStagedK})
    /\ lastReply.hadSite
    /\ ~lastReply.hadDeployed
    /\ lastReply.res = "PreviousHandlerNotExist"

\* CreateAndDeploy against StageService then DeployNewFromStaged, started in
\* the current state on a name without a site entry, for given outcomes of
\* the two builds: same resulting state, and the reply of the pair is its
\* first error.
CreateMatchesStageDeploy(fOk, lOk) ==
    \A n \in Sites :
        (ctl.pc = "idle" /\ ~sites[n].present
            /\ nsvc < MaxDirectives /\ nloop < MaxDirectives)
        => LET one == RunCreate(Core, n, fOk, lOk)
               st == RunStage(Core, n, fOk)
               dp == RunDeployNew(st.c, n, lOk)
           IN /\ one.c = dp.c
              /\ one.res = (IF st.res # Ok THEN st.res ELSE dp.res)

\* C10 (as claimed): the two agree for every outcome of F.make and LF.make.
CreateEquivalentAlways ==
    \A fOk \in BOOLEAN, lOk \in BOOLEAN : CreateMatchesStageDeploy(fOk, lOk)

\* C10 (amended): the two agree unless F.make succeeds and LF.make fails.
CreateEquivalentUnlessListenerFails ==
    \A fOk \in BOOLEAN, lOk \in BOOLEAN :
        (fOk => lOk) => CreateMatchesStageDeploy(fOk, lOk)

CreateEquivalentWitness ==
    /\ Replied({CreateAndDeployK})
    /\ ~lastReply.hadSite
    /\ lastReply.res = Ok
    /\ sites["a"].present
    /\ sites["a"].staged = 0
    /\ sites["a"].deployed # 0

\* What a caller can tell about a site: whether the name is known, whether
\* something is staged, which service new connections get, and the accept
\* loops. A service built later than `base` is only known as "new".
Observable(c, name, base) ==
    LET v == get_svc(c, name) IN
    [present |-> c.sites[name].present,
     hasStaged |-> c.sites[name].staged # 0,
     deployed |-> c.sites[name].deployed,
     content |-> IF v > base THEN base + 1 ELSE v,
     spawned |-> c.nloop,
     loops |-> c.loops]

\* A next directive with the outcomes of the factories it calls.
Outcomes ==
    { o \in WorkerDirective \X BOOLEAN \X BOOLEAN :
        /\ o[1] \notin {StageServiceK, CreateAndDeployK} => o[2]
        /\ o[1] \notin {DeployNewFromStagedK, CreateAndDeployK} => o[3] }

\* Every next directive on the name gets the same reply in both states and
\* leaves states that look the same.
SameReplies(c1, c2, name, base) ==
    \A o \in Outcomes :
        \A r1 \in {RunDirective(c1, o[1], name, o[2], o[3])},
           r2 \in {RunDirective(c2, o[1], name, o[2], o[3])} :
           /\ r1.res = r2.res
           /\ Observable(r1.c, name, base) = Observable(r2.c, name, base)

\* The site table, the slots and the accept loops are the same in both
\* states; they may differ in the count of services built and dropped.
SameSites(c1, c2) ==
    /\ c1.sites = c2.sites
    /\ c1.slot = c2.slot
    /\ c1.loops = c2.loops
    /\ c1.nloop = c2.nloop

StageThenAbort(c, name, fOk) == RunAbort(RunStage(c, name, fOk).c, name).c

StageAbortRoom ==
    ctl.pc = "idle" /\ nsvc + 2 <= MaxDirectives /\ nloop < MaxDirectives

\* The worker with nothing queued and no connection accepted yet.
AtRest == inbox = << >> /\ conns = << >>

\* C11 (as claimed): StageService followed by AbortStaging leaves the site as
\* it was for a caller, whether or not the site existed or held a staged
\* service before.
StageAbortRestoresAlways ==
    \A n \in Sites :
        StageAbortRoom
        => \A after \in {StageThenAbort(Core, n, TRUE)} :
              /\ SameSites(after, Core)
              /\ AtRest => SameReplies(after, Core, n, nsvc)

\* C11: when the name has a site entry with nothing staged, StageService
\* followed by AbortStaging leaves the site as it was for a caller, whether
\* the factory succeeded or failed: site table, slots and accept loops are
\* unchanged, and (compared on the worker at rest) every later directive on
\* the name gets the same reply and has the same effect.
StageAbortRestores ==
    \A n \in Sites, fOk \in BOOLEAN :
        (StageAbortRoom /\ sites[n].present /\ sites[n].staged = 0)
        => \A after \in {StageThenAbort(Core, n, fOk)} :
              /\ SameSites(after, Core)
              /\ AtRest => SameReplies(after, Core, n, nsvc)

\* AbortStaging has just cleared the service a StageService had staged on a
\* deployed site that had nothing staged before (two services were built:
\* the deployed one and the aborted one).
StageAbortWitness ==
    /\ Replied({AbortStagingK}) /\ lastReply.res = Ok
    /\ lastReply.hadStaged /\ lastReply.hadDeployed
    /\ nsvc = 2 /\ ctl.pc = "idle" /\ AtRest
    /\ sites[lastReply.name].staged = 0
    /\ get_svc(Core, lastReply.name) # 0
    /\ View(Core) = [pre EXCEPT !.sites[lastReply.name].staged = 0]

\* The step in which the controller answers a directive of one of the kinds.
ReplyStep(kinds) == replied' = replied + 1 /\ lastReply'.kind \in kinds

\* C12: a successful StageService leaves in the staged slot the service it
\* has just built, whatever was staged before, and a successful publish
\* (UpdateDeployedWithStaged or DeployNewFromStaged) deploys exactly the
\* service the staged slot held: the last StageService wins.
LastStageWins ==
    [][ /\ (ReplyStep({StageServiceK}) /\ lastReply'.res = Ok)
            => /\ nsvc' = nsvc + 1
               /\ sites'[lastReply'.name].staged = nsvc'
        /\ (ReplyStep({UpdateDeployedWithStagedK, DeployNewFromStagedK})
              /\ lastReply'.res = Ok)
            => /\ sites[lastReply'.name].staged # 0
               /\ get_svc(Core', lastReply'.name) = sites[lastReply'.name].staged
      ]_vars

\* Three replies: two successful StageService, then DeployNewFromStaged,
\* which deployed the second service; the first one is gone.
LastStageWinsWitness ==
    /\ Replied({DeployNewFromStagedK}) /\ lastReply.res = Ok
    /\ ~lastReply.hadDeployed
    /\ replied = 3 /\ nsvc = 2
    /\ get_svc(Core, lastReply.name) = 2
    /\ rc[1] = 0

\* A StageService has just replied `res` and no later directive has been
\* taken from the inbox.
StageJustReplied(res) ==
    Replied({StageServiceK}) /\ lastReply.res = res /\ ctl.pc = "idle"

\* The StageService on a deployed site failed to build and changed nothing:
\* the deployed slot still holds the service it held when the directive was
\* taken, which is what the accept loop hands to new connections.
FailedStageKeepsDeployed ==
    (StageJustReplied("BuildService") /\ lastReply.hadDeployed)
    => LET n == lastReply.name IN
       /\ View(Core) = pre
       /\ get_svc(Core, n) # 0
       /\ SlotGetSvc(Core, sites[n].deployed) = pre.content[n]

\* A StageService whose factory fails (it builds no service) replies
\* BuildService.
FailedStageReply ==
    [][ (ctl.pc = "stage_make" /\ replied' = replied + 1 /\ nsvc' = nsvc)
        => lastReply'.res = "BuildService" ]_vars

\* C13 (as claimed): after a failed StageService on a deployed site, new
\* connections are still served by the deployed service and a following
\* UpdateDeployedWithStaged replies PreparationNotExist.
FailedStageThenUpdateFails ==
    /\ FailedStageKeepsDeployed
    /\ (StageJustReplied("BuildService") /\ lastReply.hadDeployed)
       => RunUpdate(Core, lastReply.name).res = "PreparationNotExist"

\* C13: with a site deployed at V1, a StageService whose factory fails
\* replies BuildService and new connections are still served by V1; a
\* following UpdateDeployedWithStaged replies PreparationNotExist when
\* nothing was staged before the failed StageService, and publishes the
\* service staged earlier (replying Ok) when something was.
FailedStageOnDeployed ==
    /\ [](/\ FailedStageKeepsDeployed
          /\ (StageJustReplied("BuildService") /\ lastReply.hadDeployed)
             => RunUpdate(Core, lastReply.name).res
                  = (IF lastReply.hadStaged THEN Ok ELSE "PreparationNotExist"))
    /\ FailedStageReply

\* The failed StageService on a deployed site with nothing staged has just
\* replied and the UpdateDeployedWithStaged is next in the inbox.
FailedStageOnDeployedWitness ==
    /\ StageJustReplied("BuildService")
    /\ lastReply.hadDeployed /\ ~lastReply.hadStaged
    /\ inbox # << >>
    /\ Head(inbox).kind = UpdateDeployedWithStagedK
    /\ Head(inbox).name = lastReply.name

\* C14: StageService gives the factory, as `old`, the service in the site's
\* deployed slot when the site has a deployed service and None otherwise;
\* on success the new service is in the staged slot and the deployed slot
\* still holds the old service.
StageBuildsFromDeployed ==
    StageJustReplied(Ok)
    => LET n == lastReply.name
           v == sites[n].staged
       IN /\ v # 0
          /\ madeFrom[v] = pre.content[n]
          /\ lastReply.hadDeployed <=> pre.content[n] # 0
          /\ get_svc(Core, n) = pre.content[n]
          /\ v # get_svc(Core, n)

StageBuildsFromDeployedWitness ==
    /\ StageJustReplied(Ok) /\ lastReply.hadDeployed
    /\ madeFrom[sites[lastReply.name].staged] = get_svc(Core, lastReply.name)
    /\ get_svc(Core, lastReply.name) # 0

\* C15: a successful UpdateDeployedWithStaged changes only the content of
\* the site's slot and empties the staged slot: it spawns no accept loop,
\* creates no cell and no stop channel, builds no service, and leaves the
\* deployed record, its stop handle and every running loop in place.
UpdateOnlySwapsContent ==
    [][ (ReplyStep({UpdateDeployedWithStagedK}) /\ lastReply'.res = Ok)
        => LET n == lastReply'.name
               l == sites[n].deployed
           IN /\ l # 0
              /\ sites' = [sites EXCEPT ![n].staged = 0]
              /\ slot' = [slot EXCEPT ![l] = sites[n].staged]
              /\ loops' = loops
              /\ nloop' = nloop
              /\ nsvc' = nsvc
              /\ conns' = conns
      ]_vars

UpdateOnlySwapsContentWitness ==
    /\ Replied({UpdateDeployedWithStagedK}) /\ lastReply.res = Ok
    /\ LET l == sites[lastReply.name].deployed IN
       /\ l # 0 /\ loops[l].st = "live" /\ loops[l].stop = "none"
       /\ slot[l] = 2 /\ nloop = 1

\* A publish (UpdateDeployedWithStaged or DeployNewFromStaged) has just
\* replied Ok and no later directive has been taken from the inbox.
PublishJustReplied ==
    /\ Replied({UpdateDeployedWithStagedK, DeployNewFromStagedK})
    /\ lastReply.res = Ok /\ ctl.pc = "idle"

\* C16: a publish consumes the staged service: after a successful
\* UpdateDeployedWithStaged or DeployNewFromStaged the staged slot is empty,
\* so an UpdateDeployedWithStaged that follows without a new StageService
\* replies PreparationNotExist and leaves the deployed service unchanged.
PublishConsumesStaged ==
    PublishJustReplied
    => LET n == lastReply.name
           r == RunUpdate(Core, n)
       IN /\ lastReply.hadStaged
          /\ sites[n].staged = 0
          /\ r.res = "PreparationNotExist"
          /\ r.c = Core

PublishConsumesStagedWitness ==
    /\ PublishJustReplied
    /\ inbox # << >>
    /\ Head(inbox).kind = UpdateDeployedWithStagedK
    /\ Head(inbox).name = lastReply.name

\* An AbortStaging has just replied and no later directive has been taken.
AbortJustReplied == Replied({AbortStagingK}) /\ ctl.pc = "idle"

\* AbortStaging itself: Ok on an existing site, where it empties the staged
\* slot and touches neither the deployed service nor the accept loop;
\* SiteNotExist, and nothing changed, when the name has no site entry.
AbortEffect ==
    AbortJustReplied
    => LET n == lastReply.name IN
       IF lastReply.hadSite
       THEN /\ lastReply.res = Ok
            /\ View(Core) = [pre EXCEPT !.sites[n].staged = 0]
       ELSE /\ lastReply.res = "SiteNotExist"
            /\ View(Core) = pre

\* C17 (as claimed): after AbortStaging on an existing site a following
\* UpdateDeployedWithStaged replies PreparationNotExist.
AbortThenUpdateNotStaged ==
    /\ AbortEffect
    /\ (AbortJustReplied /\ lastReply.hadSite)
       => RunUpdate(Core, lastReply.name).res = "PreparationNotExist"

\* C17: AbortStaging on an existing site replies Ok and empties the staged
\* slot without touching the deployed service or the accept loop; a
\* following UpdateDeployedWithStaged replies PreparationNotExist when the
\* site has a deployed service and PreviousHandlerNotExist when it has none.
\* AbortStaging on a name with no site entry replies SiteNotExist.
AbortEmptiesStaged ==
    /\ AbortEffect
    /\ (AbortJustReplied /\ lastReply.hadSite)
       => RunUpdate(Core, lastReply.name).res
            = (IF lastReply.hadDeployed THEN "PreparationNotExist"
               ELSE "PreviousHandlerNotExist")

\* AbortStaging has just dropped the staged service of a deployed site and
\* the UpdateDeployedWithStaged is next in the inbox.
AbortEmptiesStagedWitness ==
    /\ AbortJustReplied /\ lastReply.res = Ok
    /\ lastReply.hadStaged /\ lastReply.hadDeployed
    /\ inbox # << >>
    /\ Head(inbox).kind = UpdateDeployedWithStagedK
    /\ Head(inbox).name = lastReply.name

\* ------------------------------------------------- claims about the fleet
WorkerResults == {Ok} \cup CommandError

\* Worker w has been handed its task of the current dispatch, or the attempt
\* to hand it over has failed.
Given(w) ==
    \/ replyRx[w] # "none"
    \/ Len(results) >= w /\ results[w] = SendError

OneResultPerWorker ==
    /\ Len(results) <= NumWorkers
    /\ orch.pc = "done"
       => /\ Len(results) = NumWorkers
          /\ \A w \in Workers :
                /\ winbox[w] = << >> /\ wrun[w] = NoTask
                /\ replyRx[w] # "pending"
                /\ results[w] \in WorkerResults
                    => /\ wlast[w] = [d |-> orch.d, kind |-> orch.kind,
                                      name |-> orch.name, res |-> results[w]]
                /\ results[w] \notin WorkerResults
                    => /\ results[w] \in {SendError, Canceled}
                       /\ wlast[w].d = 0
                       /\ ~walive[w]

\* dispatch_directive is about to return two different answers, each the
\* one its worker gave.
OneResultPerWorkerWitness ==
    /\ orch.pc = "done"
    /\ results[1] \in WorkerResults /\ results[2] \in WorkerResults
    /\ results[1] # results[2]
    /\ wlast[1].res = results[1] /\ wlast[2].res = results[2]

\* C20: when a worker's controller has terminated, dispatch_directive never
\* waits for a reply that cannot come; a worker that had terminated before
\* the call gets a send failure as its result, and every worker still
\* running when dispatch_directive returns has been given the directive and
\* its answer has been collected.
TerminatedWorkerFails ==
    /\ ~(orch.pc = "wait" /\ ~walive[orch.i] /\ replyRx[orch.i] = "pending")
    /\ \A w \in Workers : ~walive[w] => winbox[w] = << >> /\ wrun[w] = NoTask
    /\ orch.pc = "done"
       => \A w \in Workers :
            /\ w \in orch.gone => results[w] = SendError
            /\ walive[w] => /\ results[w] \in WorkerResults
                            /\ wlast[w].d = orch.d
                            /\ wlast[w].res = results[w]

\* Worker 1 had terminated before the call; worker 2, after it in the loop,
\* executed the directive and its answer is in the results.
TerminatedWorkerFailsWitness ==
    /\ orch.pc = "done"
    /\ 1 \in orch.gone /\ results[1] = SendError
    /\ walive[2] /\ results[2] \in WorkerResults
    /\ wlast[2].d = orch.d

\* C21: a directive sent while the inbox is full is not dropped: nothing
\* enters the inbox while it is full (the sender waits), a directive that is
\* sent goes to the tail of the inbox with the next id, and the directives
\* sent and not yet answered are, once each, the one being executed and
\* the ones queued; every reply answers the next directive.
FullInboxDelivers ==
    /\ [](LET running == IF ctl.pc = "idle" THEN 0 ELSE 1
          IN /\ Len(inbox) <= MaxInbox
             /\ running + Len(inbox) = nextId - replied
             /\ \A i \in 1..Len(inbox) : inbox[i].id = replied + running + i)
    /\ [][/\ Len(inbox) = MaxInbox => nextId' = nextId
          /\ nextId' # nextId =>
                /\ nextId' = nextId + 1
                /\ Len(inbox') = Len(inbox) + 1
                /\ inbox'[Len(inbox')].id = nextId'
                /\ \A i \in 1..Len(inbox) : inbox'[i] = inbox[i]
          /\ replied' # replied =>
                /\ replied' = replied + 1
                /\ ctl.pc # "idle" \/ Head(inbox).id = replied'
                /\ lastReply'.id = replied']_vars

FullInboxDeliversWitness ==
    /\ Len(inbox) = MaxInbox
    /\ ctl.pc # "idle"
    /\ replied >= 1
    /\ inbox[MaxInbox].id = replied + 1 + MaxInbox

\* C22: a step changes the site state (site table, slots, accept loops) of
\* at most one worker, and only as the directive that this worker is
\* executing changes it, or because the worker's thread is gone; so two
\* workers that executed the same directive may hold different site states.
WorkersIndependent ==
    [][\A w \in Workers :
          wcore'[w] # wcore[w] =>
            /\ \A v \in Workers \ {w} : wcore'[v] = wcore[v]
            /\ walive[w]
            /\ \/ ~walive'[w]
               \/ /\ wrun[w] # NoTask
                  /\ wrun'[w] = NoTask
                  /\ \E fOk \in BOOLEAN, lOk \in BOOLEAN :
                        wcore'[w] = RunDirective(wcore[w], wrun[w].kind,
                                                 wrun[w].name, fOk, lOk).c]_vars

\* Both workers executed the directive of the same dispatch; the site is
\* deployed on worker 1 and unknown to worker 2.
WorkersIndependentWitness ==
    /\ walive[1] /\ walive[2]
    /\ orch.d >= 1
    /\ wlast[1].d = orch.d /\ wlast[2].d = orch.d
    /\ \E s \in Sites : /\ wcore[1].sites[s].present
                         /\ wcore[1].sites[s].deployed # 0
                         /\ ~wcore[2].sites[s].present

\* C23: every directive the worker was given is eventually answered,
\* whatever the earlier directives replied, and a step that sends a reply
\* sends one reply, for the directive in execution (or taken by that step).
EveryDirectiveAnswered ==
    /\ \A id \in 1..MaxFeeds : (nextId >= id) ~> (replied >= id)
    /\ [][replied' # replied =>
            /\ replied' = replied + 1
            /\ lastReply'.id = replied'
            /\ IF ctl.pc = "idle"
               THEN inbox # << >> /\ Head(inbox).id = replied' /\ inbox' = Tail(inbox)
               ELSE ctl.id = replied' /\ ctl'.pc = "idle"]_vars

\* The second directive was answered Ok although the first one had failed:
\* it is a StageService that found no site entry, and every directive that
\* succeeds on an empty site table leaves one.
EveryDirectiveAnsweredWitness ==
    /\ replied = 2
    /\ lastReply.kind = StageServiceK
    /\ lastReply.res = Ok
    /\ ~lastReply.hadSite

\* C24: an accept loop whose deployed record was dropped by RemoveService
\* eventually returns, which drops its listener with the serve future (a
\* directive starts at most one loop, so the loops are 1..MaxFeeds).
RemovedLoopReturns ==
    \A l \in 1..MaxFeeds :
        (loops[l].st = "live" /\ loops[l].stop = "remove")
            ~> (loops[l].st = "returned")

RemovedLoopReturnsWitness ==
    \E l \in Ids :
        /\ loops[l].st = "returned"
        /\ loops[l].stop = "remove"
        /\ lastReply.kind = RemoveServiceK
        /\ lastReply.res = Ok

\* C25 (as claimed): a site with no deployed record, or with no site entry,
\* has no accept loop running on the worker.
NoLoopWithoutDeployed ==
    \A s \in Sites :
        (~sites[s].present \/ sites[s].deployed = 0) => LiveLoops(s) = {}

\* C26: when the listener of a loop that was not signalled ends, the loop
\* returns and the step leaves the site table alone, and the slot and its
\* service too when the site's deployed record is the loop's.  On such a
\* site UpdateDeployedWithStaged replies Ok exactly when something is
\* staged, and then puts the staged service into the slot, spawns no loop
\* and leaves the returned loop returned, so that nothing accepts for it.
ClosedListenerKeepsSite ==
    /\ [][\A l \in Ids :
            (loops[l].st = "live" /\ loops[l].stop = "none"
                                 /\ loops'[l].st = "returned")
            => /\ sites' = sites
               /\ \A s \in Sites :
                     (sites[s].present /\ sites[s].deployed = l)
                         => slot'[l] = slot[l] /\ rc' = rc]_vars
    /\ [](\A s \in Sites :
            LET d == sites[s].deployed IN
            (sites[s].present /\ d # 0 /\ loops[d].st = "returned"
                                       /\ loops[d].stop = "none")
            => LET r == RunUpdate(Core, s) IN
               /\ (r.res = Ok) <=> (sites[s].staged # 0)
               /\ r.res = Ok =>
                     /\ r.c.slot[d] = sites[s].staged
                     /\ r.c.sites[s].deployed = d
                     /\ r.c.loops = loops
                     /\ r.c.nloop = nloop
                     /\ ~AcceptBranchReady(r.c.loops[d]))

\* The listener of the deployed site has ended and the controller is about
\* to execute an UpdateDeployedWithStaged for it with a service staged.
ClosedListenerKeepsSiteWitness ==
    /\ ctl.pc = "idle"
    /\ inbox # << >>
    /\ Head(inbox).kind = UpdateDeployedWithStagedK
    /\ LET s == Head(inbox).name
           d == sites[s].deployed
       IN /\ sites[s].present /\ d # 0 /\ sites[s].staged # 0
          /\ loops[d].st = "returned" /\ loops[d].stop = "none"

\* C27: a step in which a listener yields an error leaves every accept
\* loop, the failing one included, and every connection task as they were:
\* no task is spawned, the loop is still alive and its accept branch is
\* still there for the next connection.
AcceptErrorLoopsOn ==
    [][\A l \in Ids :
          acceptErrs'[l] # acceptErrs[l] =>
            /\ loops' = loops
            /\ conns' = conns
            /\ slot' = slot /\ rc' = rc /\ sites' = sites
            /\ AcceptBranchReady(loops'[l])]_vars

\* A connection accepted, and still served, by a loop whose listener had
\* yielded an error before.
AcceptErrorLoopsOnWitness ==
    \E i \in 1..Len(conns) :
        /\ conns[i].errsBefore >= 1
        /\ conns[i].live
        /\ conns[i].svc = slot[conns[i].loop]

\* C28 (as claimed): once the one-shot sender of a worker has been
\* signalled, the controller of that worker shuts down.
SignalledWorkerShutsDown ==
    \A w \in Workers : finishTx[w] ~> ~walive[w]

\* C29: the controller has returned only if its inbox is closed and every
\* directive that was sent has been executed and answered; once the inbox
\* is closed the controller does return; the step in which it returns ends
\* no accept loop and no connection task; and the thread is left only when
\* every accept loop has returned and every connection task has finished.
ControllerEndsOnClose ==
    /\ [](thread # "controller" =>
            /\ rxClosed
            /\ inbox = << >>
            /\ ctl.pc = "idle"
            /\ replied = nextId)
    /\ [](thread = "exited" =>
            /\ \A l \in Ids : loops[l].st # "live"
            /\ \A i \in 1..Len(conns) : ~conns[i].live)
    /\ [][(thread = "controller" /\ thread' # "controller") =>
            /\ conns' = conns
            /\ \A l \in Ids : loops'[l].st = loops[l].st]_vars
    /\ rxClosed ~> (thread # "controller")

\* The controller has returned after answering at least one directive; an
\* accept loop of the worker, signalled by the drop of the WorkerManager,
\* and a connection task are still running.
ControllerEndsOnCloseWitness ==
    /\ thread = "draining"
    /\ replied >= 1
    /\ \E l \in Ids : loops[l].st = "live" /\ loops[l].stop = "shutdown"
    /\ \E i \in 1..Len(conns) : conns[i].live

\* C30 (as claimed): with cpu_affinity set and the number of cores known,
\* when spawn_workers returns worker thread i is pinned to core
\* i mod cores, and the thread that called spawn_workers is pinned to none.
WorkersPinnedByIndex ==
    (spawn.pc = "done" /\ spawn.cpu_affinity /\ Cores(spawn) # 0) =>
        /\ \A i \in 0..(spawn.threads - 1) : spawn.pin[i] = i % Cores(spawn)
        /\ spawn.main = AllCores

\* Tasks worker w holds: queued in its inbox or in execution.
Held(w) == Len(winbox[w]) + (IF wrun[w] = NoTask THEN 0 ELSE 1)

\* C33: a worker holds a task (queued or in execution) only while
\* dispatch_directive waits for that very worker, after the outcomes of all
\* workers before it have been collected; so the fleet holds at most one
\* task at any time and no inbox more than one.
OneDirectiveInFleet ==
    /\ \A w \in Workers :
          Held(w) >= 1 =>
            /\ Held(w) = 1
            /\ orch.pc = "wait" /\ orch.i = w
            /\ Len(results) = w - 1
            /\ replyRx[w] = "pending"
            /\ (IF wrun[w] = NoTask THEN Head(winbox[w]) ELSE wrun[w]).d = orch.d
    /\ \A w \in Workers, v \in Workers : Held(w) >= 1 /\ Held(v) >= 1 => w = v

\* The task of worker 2 is queued, undelivered; worker 1 has executed and
\* answered the directive and holds nothing.
OneDirectiveInFleetWitness ==
    /\ Len(winbox[2]) = 1 /\ wrun[2] = NoTask
    /\ Held(1) = 0 /\ walive[1]
    /\ wlast[1].d = orch.d
    /\ Len(results) = 1

\* C34: the step in which a StageService replies BuildService leaves the
\* site table and the slots as they are, so a service staged earlier is
\* still staged; when the site is deployed, a following
\* UpdateDeployedWithStaged replies Ok, puts that earlier service into the
\* deployed slot and empties the staged slot.
FailedStageKeepsStaged ==
    /\ [][(ReplyStep({StageServiceK}) /\ lastReply'.res = "BuildService")
            => sites' = sites /\ slot' = slot /\ nsvc' = nsvc]_vars
    /\ []((StageJustReplied("BuildService") /\ lastReply.hadStaged)
            => LET n == lastReply.name
                   r == RunUpdate(Core, n)
               IN /\ sites[n].staged # 0
                  /\ sites[n].staged = pre.sites[n].staged
                  /\ lastReply.hadDeployed =>
                        /\ r.res = Ok
                        /\ get_svc(r.c, n) = sites[n].staged
                        /\ r.c.sites[n].staged = 0)

\* A StageService on a deployed site with a service staged has just failed
\* and the UpdateDeployedWithStaged is next in the inbox.
FailedStageKeepsStagedWitness ==
    /\ StageJustReplied("BuildService")
    /\ lastReply.hadDeployed /\ lastReply.hadStaged
    /\ inbox # << >>
    /\ Head(inbox).kind = UpdateDeployedWithStagedK
    /\ Head(inbox).name = lastReply.name

\* A DeployNewFromStaged or CreateAndDeploy on a site that was deployed has
\* just replied Ok and no later directive has been taken from the inbox.
RedeployJustReplied ==
    /\ Replied({DeployNewFromStagedK, CreateAndDeployK})
    /\ lastReply.res = Ok /\ lastReply.hadDeployed /\ ctl.pc = "idle"

CreateJustReplied ==
    Replied({CreateAndDeployK}) /\ lastReply.res = Ok /\ ctl.pc = "idle"

\* C36: after a CreateAndDeploy that succeeds the staged slot of the site
\* is empty, the deployed slot holds the service the directive built, that
\* service was built with old = None even when the site was deployed, and
\* a service that was staged before is held by nobody any more.
CreateConsumesStaged ==
    /\ [](CreateJustReplied =>
            LET n == lastReply.name
                d == sites[n].deployed
                was == pre.sites[n].staged
            IN /\ sites[n].present /\ sites[n].staged = 0 /\ d # 0
               /\ pre.sites[n].deployed # 0 => d # pre.sites[n].deployed
               /\ was # 0 => rc[was] = 0 /\ \A l \in Ids : slot[l] # was)
    /\ [][(ReplyStep({CreateAndDeployK}) /\ lastReply'.res = Ok)
          => LET n == lastReply'.name
                 d == sites'[n].deployed
             IN /\ ctl.pc = "create_listener"
                /\ slot'[d] = ctl.svc
                /\ madeFrom[ctl.svc] = 0
                /\ lastReply'.hadStaged => ctl.svc # sites[n].staged]_vars

\* CreateAndDeploy has succeeded on a site that was deployed and had a
\* service staged.
CreateConsumesStagedWitness ==
    /\ CreateJustReplied
    /\ lastReply.hadStaged /\ lastReply.hadDeployed
    /\ pre.sites[lastReply.name].staged # 0
    /\ pre.content[lastReply.name] # 0

\* C37: UpdateDeployedWithStaged replies SiteNotExist when the name has no
\* site entry, else PreviousHandlerNotExist when the entry has nothing
\* deployed (staged or not), else PreparationNotExist when nothing is
\* staged, else Ok.  The step that replies PreviousHandlerNotExist changes
\* no site and drops no service, and a DeployNewFromStaged that follows it
\* deploys the service that is still staged.
UpdateChecksInOrder ==
    /\ [][ReplyStep({UpdateDeployedWithStagedK})
          => LET sh == sites[lastReply'.name] IN
             /\ lastReply'.res =
                   (CASE ~sh.present -> "SiteNotExist"
                      [] sh.present /\ sh.deployed = 0 -> "PreviousHandlerNotExist"
                      [] sh.present /\ sh.deployed # 0 /\ sh.staged = 0
                            -> "PreparationNotExist"
                      [] OTHER -> Ok)
             /\ lastReply'.res = "PreviousHandlerNotExist"
                   => sites' = sites /\ rc' = rc /\ slot' = slot]_vars
    /\ []((/\ Replied({UpdateDeployedWithStagedK})
           /\ lastReply.res = "PreviousHandlerNotExist"
           /\ lastReply.hadStaged /\ ctl.pc = "idle")
          => LET n == lastReply.name
                 r == RunDeployNew(Core, n, TRUE)
             IN /\ sites[n].staged # 0
                /\ r.res = Ok
                /\ get_svc(r.c, n) = sites[n].staged)

\* The update of a site with a service staged and nothing deployed has
\* replied PreviousHandlerNotExist and a DeployNewFromStaged is next.
UpdateChecksInOrderWitness ==
    /\ Replied({UpdateDeployedWithStagedK})
    /\ lastReply.res = "PreviousHandlerNotExist"
    /\ lastReply.hadStaged
    /\ ctl.pc = "idle" /\ inbox # << >>
    /\ Head(inbox).kind = DeployNewFromStagedK
    /\ Head(inbox).name = lastReply.name

\* C38: DeployNewFromStaged replies BuildListener whenever its listener
\* build fails, whatever the site holds; when the build succeeds it replies
\* SiteNotExist without a site entry, PreparationNotExist with an entry and
\* nothing staged, and Ok otherwise.  A reply other than Ok leaves the site
\* table, the slots and the accept loops as they were: no loop is spawned
\* for the listener that was built.
DeployBuildsListenerFirst ==
    [][ReplyStep({DeployNewFromStagedK})
       => LET sh == sites[lastReply'.name] IN
          /\ ctl.pc = "deploy_listener"
          /\ lastReply'.res =
                (CASE ~lastReply'.lOk -> "BuildListener"
                   [] lastReply'.lOk /\ ~sh.present -> "SiteNotExist"
                   [] lastReply'.lOk /\ sh.present /\ sh.staged = 0
                         -> "PreparationNotExist"
                   [] OTHER -> Ok)
          /\ lastReply'.res # Ok
                => /\ sites' = sites /\ slot' = slot /\ rc' = rc
                   /\ loops' = loops /\ nloop' = nloop]_vars

\* The listener build of a DeployNewFromStaged for a name without site
\* entry has failed, and the reply is BuildListener.
DeployBuildsListenerFirstWitness ==
    /\ Replied({DeployNewFromStagedK})
    /\ ~lastReply.lOk
    /\ ~lastReply.hadSite
    /\ lastReply.res = "BuildListener"

\* C39: a service in a staged slot is in no deployed slot and no
\* connection, running or finished, was handed to it.  A connection is
\* handed to the service its accept loop finds in its slot.  A service
\* enters a slot only in the step in which DeployNewFromStaged,
\* CreateAndDeploy or UpdateDeployedWithStaged replies Ok.  A service that
\* leaves a staged slot in any other way (abort, overwritten by a later
\* stage, removed with its site) is dropped for good: nobody holds it.
StagedNeverServes ==
    /\ [](\A s \in Sites :
            LET v == sites[s].staged IN
            v # 0 => /\ \A l \in Ids : slot[l] # v
                     /\ \A i \in 1..Len(conns) : conns[i].svc # v)
    /\ [][/\ Len(conns') > Len(conns) =>
               LET cn == conns'[Len(conns')] IN
               /\ loops[cn.loop].st = "live"
               /\ cn.svc = slot[cn.loop] /\ cn.svc # 0
          /\ \A l \in Ids :
               (slot'[l] # slot[l] /\ slot'[l] # 0) =>
                  /\ ReplyStep({DeployNewFromStagedK, CreateAndDeployK,
                                UpdateDeployedWithStagedK})
                  /\ lastReply'.res = Ok
                  /\ sites'[lastReply'.name].deployed = l
          /\ \A s \in Sites :
               LET v == sites[s].staged IN
               (v # 0 /\ sites'[s].staged # v /\ \A l \in Ids : slot'[l] # v)
                  => rc'[v] = 0]_vars

\* A staged service has just been aborted on a site whose deployed service
\* is serving a connection.
StagedNeverServesWitness ==
    /\ Replied({AbortStagingK}) /\ lastReply.res = Ok
    /\ lastReply.hadStaged /\ lastReply.hadDeployed
    /\ pre.sites[lastReply.name].staged # 0
    /\ rc[pre.sites[lastReply.name].staged] = 0
    /\ \E i \in 1..Len(conns) :
          /\ conns[i].live
          /\ conns[i].svc = get_svc(Core, lastReply.name)

\* The connection pools owned by the layers of service s.
PoolsOf(s) == {s[i].pool : i \in 1..Len(s)} \ {0}

\* The handler layer of the pipeline being built.
HandlerOf(p) == p[Len(p)]

\* C31: in a hot update of a proxy site (StageService with a new proxy
\* factory on a site deployed at V1, then UpdateDeployedWithStaged) the V2
\* factory receives old = Some(V1) and the V2 service reuses V1's upstream
\* connection pool instead of creating a new one.
HotUpdateReusesPool ==
    LET b == fac.last IN
    (/\ b.hot /\ b.old.some /\ b.res.ok
     /\ HandlerOf(fac.pipeline) \in {"ProxyHandler", "UpstreamHandler"})
    => /\ b.res.calls[1] = b.old
       /\ PoolsOf(b.res.svc) = PoolsOf(b.old.svc)

\* C32: every wrapping layer calls its inner factory with Some(inner part
\* of old) when it is given Some(old) and with None when it is given None,
\* the inner part being the service the inner factory's own layer made; an
\* error of the inner factory is the error of the whole build, and the
\* build produces no service.
WrappersPassOldDown ==
    LET b == fac.last
        ls == Levels(b.f)
        calls == b.res.calls
    IN fac.nbuild > 0 =>
        /\ Len(calls) = Len(ls)
        /\ \A i \in 1..(Len(ls) - 1) :
              ls[i] \in Wrappers =>
                /\ calls[i].some =>
                      /\ calls[i + 1] = SomeSvc(SubSeq(calls[i].svc, 2, Len(calls[i].svc)))
                      /\ Head(calls[i + 1].svc).kind = ls[i + 1]
                /\ ~calls[i].some => calls[i + 1] = NoSvc
        /\ b.f.fails =>
              /\ ~b.res.ok
              /\ b.res.svc = << >>
              /\ b.res.err.cause = InnerError.cause
              /\ Head(ls) \in Wrappers => b.res.err = InnerError

\* A hot update through two wrapping layers whose innermost factory was
\* given the old handler and failed.
WrappersPassOldDownWitness ==
    LET b == fac.last
        ls == Levels(b.f)
    IN /\ b.hot /\ b.old.some /\ ~b.res.ok
       /\ Len(ls) >= 3 /\ ls[1] \in Wrappers /\ ls[2] \in Wrappers
       /\ b.res.calls[Len(ls)].some

\* C40: UnifiedTlsFactory hands the old inner service to its inner factory
\* only when the old service has the factory's TLS variant; when a hot
\* update changes the variant every factory below the TLS layer is called
\* with old = None and the new service shares no pool with the old one.
TlsCarriesOnlySameVariant ==
    LET b == fac.last
        ls == Levels(b.f)
        calls == b.res.calls
        same == b.old.some /\ Head(b.old.svc).variant = b.f.tls
    IN (fac.nbuild > 0 /\ Head(ls) = "UnifiedTls") =>
        /\ calls[2].some <=> same
        /\ same => calls[2] = SomeSvc(Tail(b.old.svc))
        /\ ~same => \A i \in 2..Len(calls) : calls[i] = NoSvc
        /\ (~same /\ b.old.some /\ b.res.ok) =>
              PoolsOf(b.res.svc) \cap PoolsOf(b.old.svc) = {}

\* A hot update of a proxy pipeline that changes the TLS variant.
TlsCarriesOnlySameVariantWitness ==
    LET b == fac.last IN
    /\ b.hot /\ b.old.some /\ b.res.ok
    /\ Head(fac.pipeline) = "UnifiedTls"
    /\ Head(b.old.svc).variant # b.f.tls
    /\ HandlerOf(fac.pipeline) = "ProxyHandler"
    /\ Len(fac.pipeline) >= 3

====
